---- MODULE Spec2Model ----
(***************************************************************************)
(* cargo-hatch: the settings / templating pipeline.                        *)
(*                                                                         *)
(*   settings/repo/mod.rs   setting schema, validate, load, new_context,   *)
(*                          fill_context, run                              *)
(*   settings/repo/defaults.rs, prompts.rs   default resolver and prompts  *)
(*   templates.rs           collect_files, filter_ignored, render          *)
(*   main.rs                generate_project                               *)
(*   repo.rs                find_repo_name                                 *)
(*   cargo.rs               update_versions                                *)
(*                                                                         *)
(* Option<T> is a sequence of length at most one: None is <<>> and Some(x) *)
(* is <<x>>.  Result<T> is a record [ok |-> TRUE, v |-> x] or              *)
(* [ok |-> FALSE, err |-> e].                                              *)
(***************************************************************************)
EXTENDS Integers, Sequences, FiniteSets, TLC

\* ------------------------------------------------------------------ bounds
\* largest number a template configuration or an operator uses
MaxNum == 2
\* largest number of settings a template declares
MaxArgs == 2
\* largest number of ignore rules a template declares
MaxRules == 2
\* largest number of lines or keys the operator enters at one prompt
MaxKeys == 4
\* largest number of pieces a git URL is put together from
MaxPieces == 4
\* largest number of dependencies in a table of a manifest
MaxDeps == 2

\* ----------------------------------------------------------------- helpers
\* A value with its variant: a value of the context (tera stores the JSON
\* form of what is inserted) or a DefaultValue.  TLC compares the fields of
\* two records in the order in which the field names first occur in the
\* module, so the field that names the variant is written first and values
\* of different variants never get compared.
Val(t, v) == [t |-> t, v |-> v]

None == <<>>

Some(x) == <<x>>

IsSome(o) == Len(o) = 1

Unwrap(o) == o[1]

Ok(x) == [ok |-> TRUE, v |-> x]

Err(e) == [ok |-> FALSE, err |-> e]

\* Iterator::position over the results of a test: the position of the first
\* TRUE of hits, 0 when there is none
FirstIndex(hits) ==
  IF \E i \in 1..Len(hits) : hits[i]
    THEN CHOOSE i \in 1..Len(hits) : hits[i] /\ \A j \in 1..(i - 1) : ~hits[j]
    ELSE 0

\* ------------------------------------------------------- numbers and floats
\* f64::NAN, the one float that compares false with everything
NaN == -1

Ints == 0..(MaxNum + 1)

Floats == Ints \cup {NaN}

\* PartialOrd of i64 and f64: every comparison with NaN is false
NumLe(a, b) == a # NaN /\ b # NaN /\ a <= b

NumLt(a, b) == a # NaN /\ b # NaN /\ a < b

NumGe(a, b) == a # NaN /\ b # NaN /\ a >= b

\* a range check that takes the upper bound in: (min..=max).contains(d)
RangeContainsUpper(min, max, d) == NumLe(min, d) /\ NumLe(d, max)

\* (min..max).contains(d): min <= d && d < max
RangeContains(min, max, d) == NumLe(min, d) /\ NumLt(d, max)

\* a range check that leaves the upper bound out
RangeInclusiveContains_halfopen(min, max, d) == NumLe(min, d) /\ NumLt(d, max)

\* (min..=max).contains(d): min <= d && d <= max
RangeInclusiveContains(min, max, d) == NumLe(min, d) /\ NumLe(d, max)

\* --------------------------------------------------------- setting schema
Strings == {"a", "b", "c"}

\* IndexSet<String>: sequences without duplicates
ValueLists ==
  {<<>>} \cup {<<x>> : x \in {"a", "b"}}
         \cup {<<x, y>> : <<x, y>> \in {p \in {"a", "b"} \X {"a", "b"} : p[1] # p[2]}}

Contains(values, x) == \E i \in 1..Len(values) : values[i] = x

BoolSettings == [type : {"Bool"}, default : {None, Some(TRUE), Some(FALSE)}]

StringSettings ==
  [type : {"String"}, default : {None, Some("a")}, validator : {None, Some("Ident")}]

NumberSettings ==
  [type : {"Number"}, min : Ints, max : Ints, default : {None} \cup {Some(d) : d \in Ints}]

FloatSettings ==
  [type : {"Float"}, min : Floats, max : Floats, default : {None} \cup {Some(d) : d \in Floats}]

ListSettings ==
  [type : {"List"}, values : ValueLists, default : {None} \cup {Some(d) : d \in Strings}]

MultiListSettings ==
  [type : {"MultiList"}, values : ValueLists,
   default : {None} \cup {Some(d) : d \in SUBSET Strings}]

MinGeMax == "minimum is greater or equal the maximum value"

DefaultOutOfRange == "default value is not within the min/max range"

DefaultNotInValues == "default value isn't part of the possible values"

DefaultsNotInValues == "one of the default values isn't part of the possible values"

\* RepoSetting: the key of the setting in RepoSettings.args, its activation
\* condition and its type
RepoSetting(name, condition, ty) == [name |-> name, condition |-> condition, ty |-> ty]

\* NumberSetting::validate
NumberSetting_validate(s) ==
  IF NumGe(s.min, s.max) THEN Some(MinGeMax)
  ELSE IF IsSome(s.default) /\ ~RangeContains(s.min, s.max, Unwrap(s.default))
    THEN Some(DefaultOutOfRange)
  ELSE None

\* ListSetting::validate
ListSetting_validate(s) ==
  IF IsSome(s.default) /\ ~Contains(s.values, Unwrap(s.default))
    THEN Some(DefaultNotInValues)
    ELSE None

\* MultiListSetting::validate
MultiListSetting_validate(s) ==
  IF IsSome(s.default) /\ \E def \in Unwrap(s.default) : ~Contains(s.values, def)
    THEN Some(DefaultsNotInValues)
    ELSE None

\* the trait method Setting::validate of each setting type; Bool and String
\* keep the trait's default body
Setting_validate(s) ==
  CASE s.type \in {"Bool", "String"} -> None
    [] s.type \in {"Number", "Float"} -> NumberSetting_validate(s)
    [] s.type = "List" -> ListSetting_validate(s)
    [] s.type = "MultiList" -> MultiListSetting_validate(s)

\* validate_number with min > max in place of min >= max
validate_number_gt(s) ==
  IF NumGe(s.min, s.max) /\ s.min # s.max THEN Some(MinGeMax)
  ELSE IF IsSome(s.default) /\ ~RangeContains(s.min, s.max, Unwrap(s.default))
    THEN Some(DefaultOutOfRange)
  ELSE None

\* RepoSetting::validate_number
validate_number(s) ==
  IF NumGe(s.min, s.max) THEN Some(MinGeMax)
  ELSE IF IsSome(s.default) /\ ~RangeContains(s.min, s.max, Unwrap(s.default))
    THEN Some(DefaultOutOfRange)
  ELSE None

\* validate with all in place of any for the defaults of a MultiList
validate_all(self) ==
  CASE self.ty.type \in {"Bool", "String"} -> None
    [] self.ty.type \in {"Number", "Float"} -> validate_number(self.ty)
    [] self.ty.type = "List" ->
         IF IsSome(self.ty.default) /\ ~Contains(self.ty.values, Unwrap(self.ty.default))
           THEN Some(DefaultNotInValues)
           ELSE None
    [] self.ty.type = "MultiList" ->
         IF /\ IsSome(self.ty.default)
            /\ Unwrap(self.ty.default) # {}
            /\ \A def \in Unwrap(self.ty.default) : ~Contains(self.ty.values, def)
           THEN Some(DefaultsNotInValues)
           ELSE None

\* RepoSetting::validate; self.ty is the setting type
validate(self) ==
  CASE self.ty.type \in {"Bool", "String"} -> None
    [] self.ty.type \in {"Number", "Float"} -> validate_number(self.ty)
    [] self.ty.type = "List" ->
         IF IsSome(self.ty.default) /\ ~Contains(self.ty.values, Unwrap(self.ty.default))
           THEN Some(DefaultNotInValues)
           ELSE None
    [] self.ty.type = "MultiList" ->
         IF /\ IsSome(self.ty.default)
            /\ \E def \in Unwrap(self.ty.default) : ~Contains(self.ty.values, def)
           THEN Some(DefaultsNotInValues)
           ELSE None

\* ------------------------------------------------- context and conditions
NumText(n) == IF n = NaN THEN "NaN" ELSE <<"0", "1", "2", "3", "4", "5">>[n + 1]

\* the text {{ key }} renders for a value
Text(value) ==
  CASE value.t = "Bool" -> IF value.v THEN "true" ELSE "false"
    [] value.t = "String" -> value.v
    [] value.t \in {"Number", "Float"} -> NumText(value.v)
    [] OTHER -> "[..]"

\* TeraContext::try_insert: BTreeMap::insert, an existing key is overwritten
Insert(c, key, value) ==
  [k \in DOMAIN c \cup {key} |-> IF k = key THEN value ELSE c[k]]

\* a template text: literal text, {{ key }}, or text with a syntax error
Lit(text) == [k |-> "lit", text |-> text]

Var(key) == [k |-> "var", text |-> key]

BadSyntax == [k |-> "bad", text |-> "{{"]

\* an anyhow error: kind of the failure, the setting it names ("" when the
\* message names none) and the reason it carries
Error(kind, name, reason) == [kind |-> kind, name |-> name, reason |-> reason]

\* Tera::render of one template against a context
RenderTemplate(tpl, c) ==
  CASE tpl.k = "lit" -> Ok(tpl.text)
    [] tpl.k = "var" ->
         IF tpl.text \in DOMAIN c
           THEN Ok(Text(c[tpl.text]))
           ELSE Err(Error("tera", "", "variable not found in context"))
    [] OTHER -> Err(Error("tera", "", "failed to parse template"))

\* str::trim
Trim(text) ==
  CASE text = " true " -> "true"
    [] text = " false " -> "false"
    [] OTHER -> text

\* str::parse::<bool>
ParseBool(text) ==
  CASE text = "true" -> Ok(TRUE)
    [] text = "false" -> Ok(FALSE)
    [] OTHER -> Err(Error("parse bool", "", "provided string was not true or false"))

\* Tera::one_off(condition, ctx, false)?.trim().parse::<bool>()?
EvalCondition(condition, c) ==
  LET result == RenderTemplate(condition, c)
  IN IF result.ok THEN ParseBool(Trim(result.v)) ELSE result

\* ------------------------------------------------------- default resolver
\* global.rs DefaultSetting { value: DefaultValue, skip_prompt }
DefaultSetting(variant, v, skip_prompt) ==
  [value |-> Val(variant, v), skip_prompt |-> skip_prompt]

get_variant(variant, default) ==
  IF default.value.t = variant
    THEN Ok(default.value.v)
    ELSE Err(Error("invalid default value", "", variant))

get_bool(default) == get_variant("Bool", default)

get_string(default) == get_variant("String", default)

get_number(default) == get_variant("Number", default)

get_float(default) == get_variant("Float", default)

get_list(default) == get_variant("List", default)

get_multi_list(default) == get_variant("MultiList", default)

\* the load argument fill_context hands to run for each setting type
LoadFor(ty, default) ==
  CASE ty.type = "Bool" -> get_bool(default)
    [] ty.type = "String" -> get_string(default)
    [] ty.type = "Number" -> get_number(default)
    [] ty.type = "Float" -> get_float(default)
    [] ty.type = "List" -> get_list(default)
    [] ty.type = "MultiList" -> get_multi_list(default)

\* Setting::set_default of every setting type
set_default(ty, default) == [ty EXCEPT !.default = Some(default)]

\* Option::or
OrElse(a, b) == IF IsSome(a) THEN a ELSE b

\* ----------------------------------------------------- interactive prompts
\* What one call of a prompt function can produce.  res is the Result the
\* function returns, presented tells whether the interactive prompt was put
\* on the terminal, shown is the default it was pre-filled with.
Outcome(res, presented, shown) == [res |-> res, presented |-> presented, shown |-> shown]

\* the operator leaves the prompt with Esc or Ctrl-C
Cancelled == Err(Error("cancelled", "", "operation was canceled by the user"))

\* what the operator can type at a text prompt; "" is a bare Enter
TypedStrings == {"", "a", "1x"}

TypedNumbers == Ints

\* validators::required
required(input) == input # ""

\* validators::ident, on the strings of the model
ident(input) == input \in {"a", "b", "c"}

RunValidator(validator, input) ==
  IF validator = None THEN required(input) ELSE ident(input)

\* the answers a text prompt returns: typed text that passes the check, or
\* the default on a bare Enter; any other input makes the prompt ask again
Answers(accepted, default) ==
  accepted \cup {Unwrap(d) : d \in {default} \ {None}}

\* prompts::prompt_bool
prompt_bool(setting, default) ==
  LET shown == OrElse(default, setting.default)
  IN {Outcome(Ok(v), TRUE, shown) : v \in Answers(BOOLEAN, shown)}
       \cup {Outcome(Cancelled, TRUE, shown)}

\* prompts::prompt_string
prompt_string(setting, default) ==
  IF IsSome(default) /\ ~RunValidator(setting.validator, Unwrap(default))
    THEN {Outcome(Err(Error("Invalid default", "", "validator")), FALSE, None)}
    ELSE LET shown == OrElse(default, setting.default)
         IN {Outcome(Ok(v), TRUE, shown) :
               v \in Answers({t \in TypedStrings \ {""} :
                                RunValidator(setting.validator, t)}, shown)}
              \cup {Outcome(Cancelled, TRUE, shown)}

\* prompts::prompt_number
prompt_number(setting, default) ==
  IF IsSome(default) /\ ~RangeInclusiveContains(setting.min, setting.max, Unwrap(default))
    THEN {Outcome(Err(Error("Invalid default", "", "value is not in range")), FALSE, None)}
    ELSE LET shown == OrElse(default, setting.default)
         IN {Outcome(Ok(v), TRUE, shown) :
               v \in Answers({t \in TypedNumbers :
                                RangeInclusiveContains(setting.min, setting.max, t)},
                             shown)}
              \cup {Outcome(Cancelled, TRUE, shown)}

\* the cursor position prompt_list starts at: position(..).unwrap_or_default(),
\* counted from 1
StartingCursor(values, default) ==
  LET i == FirstIndex([n \in 1..Len(values) |-> Some(values[n]) = default])
  IN IF i = 0 THEN 1 ELSE i

\* prompts::prompt_list; Select rejects an empty list of options, the entry
\* under the starting cursor is the one a bare Enter confirms
prompt_list(setting, default) ==
  IF setting.values = <<>>
    THEN {Outcome(Err(Error("invalid configuration", "", "options can not be empty")),
                  FALSE, None)}
    ELSE LET cursor == StartingCursor(setting.values, OrElse(default, setting.default))
             shown == Some(setting.values[cursor])
         IN {Outcome(Ok(setting.values[i]), TRUE, shown) : i \in 1..Len(setting.values)}
              \cup {Outcome(Cancelled, TRUE, shown)}

\* the entries of values at the positions of selection, in declared order
RECURSIVE Entries(_, _)
Entries(values, selection) ==
  IF values = <<>> THEN <<>>
  ELSE LET n == Len(values)
           front == Entries(SubSeq(values, 1, n - 1), selection)
       IN IF n \in selection THEN Append(front, values[n]) ELSE front

\* the positions prompt_multi_list ticks at the start
StartingSelection(values, default) ==
  IF IsSome(default)
    THEN {i \in 1..Len(values) : values[i] \in Unwrap(default)}
    ELSE {}

\* prompts::prompt_multi_list; the pre-ticked entries are the default shown
prompt_multi_list(setting, default) ==
  IF setting.values = <<>>
    THEN {Outcome(Err(Error("invalid configuration", "", "options can not be empty")),
                  FALSE, None)}
    ELSE LET selection ==
               StartingSelection(setting.values, OrElse(default, setting.default))
             shown == Some({setting.values[i] : i \in selection})
         IN {Outcome(Ok(Entries(setting.values, sel)), TRUE, shown) :
               sel \in SUBSET (1..Len(setting.values))}
              \cup {Outcome(Cancelled, TRUE, shown)}

\* the prompt argument fill_context hands to run for each setting type
PromptFor(ty, default) ==
  CASE ty.type = "Bool" -> prompt_bool(ty, default)
    [] ty.type = "String" -> prompt_string(ty, default)
    [] ty.type \in {"Number", "Float"} -> prompt_number(ty, default)
    [] ty.type = "List" -> prompt_list(ty, default)
    [] ty.type = "MultiList" -> prompt_multi_list(ty, default)

\* What one call of run can produce: the outcomes of the prompt with
\* prompted = TRUE, or the loaded external value with prompted = FALSE.
\* The seeded external value is both stored with set_default and handed to
\* the prompt function as its default argument.
Resolved(outcome, prompted) ==
  [res |-> outcome.res, prompted |-> prompted,
   presented |-> outcome.presented, shown |-> outcome.shown]

\* run that prompts although skip_prompt is set
run_always_prompt(setting, default) ==
  IF IsSome(default)
    THEN LET loaded == LoadFor(setting, Unwrap(default))
         IN IF loaded.ok
              THEN {Resolved(o, TRUE) :
                      o \in PromptFor(set_default(setting, loaded.v), Some(loaded.v))}
              ELSE {Resolved(Outcome(loaded, FALSE, None), FALSE)}
  ELSE {Resolved(o, TRUE) : o \in PromptFor(setting, None)}

\* run that prompts with the declared default when the external default to
\* seed does not load
run_lenient(setting, default) ==
  IF IsSome(default) /\ Unwrap(default).skip_prompt
    THEN {Resolved(Outcome(LoadFor(setting, Unwrap(default)), FALSE, None), FALSE)}
  ELSE IF IsSome(default) /\ LoadFor(setting, Unwrap(default)).ok
    THEN LET loaded == LoadFor(setting, Unwrap(default))
         IN {Resolved(o, TRUE) :
               o \in PromptFor(set_default(setting, loaded.v), Some(loaded.v))}
  ELSE {Resolved(o, TRUE) : o \in PromptFor(setting, None)}

run(setting, default) ==
  IF IsSome(default) /\ Unwrap(default).skip_prompt
    THEN {Resolved(Outcome(LoadFor(setting, Unwrap(default)), FALSE, None), FALSE)}
  ELSE IF IsSome(default)
    THEN LET loaded == LoadFor(setting, Unwrap(default))
         IN IF loaded.ok
              THEN {Resolved(o, TRUE) :
                      o \in PromptFor(set_default(setting, loaded.v), Some(loaded.v))}
              ELSE {Resolved(Outcome(loaded, FALSE, None), FALSE)}
  ELSE {Resolved(o, TRUE) : o \in PromptFor(setting, None)}

\* the JSON value ctx.try_insert stores for the value run returned
\* (a HashSet from get_multi_list, a Vec from prompt_multi_list)
ToValue(ty, v, prompted) ==
  CASE ty.type = "Bool" -> Val("Bool", v)
    [] ty.type \in {"String", "List"} -> Val("String", v)
    [] ty.type = "Number" -> Val("Number", v)
    [] ty.type = "Float" -> Val("Float", v)
    [] ty.type = "MultiList" -> IF prompted THEN Val("Array", v) ELSE Val("Set", v)

\* ------------------------------------------------------------------ load
\* load that reports the last invalid setting in place of the first
load_last(file) ==
  IF file.status = "missing"
    THEN Err(Error("failed reading hatch config file", "", ""))
  ELSE IF file.status = "malformed"
    THEN Err(Error("invalid hatch settings", "", ""))
  ELSE LET args == file.settings.args
           invalid == {i \in 1..Len(args) : validate(args[i]) # None}
           bad == IF invalid = {} THEN 0 ELSE CHOOSE i \in invalid : \A j \in invalid : j <= i
       IN IF bad # 0
            THEN Err(Error("invalid setting", args[bad].name, Unwrap(validate(args[bad]))))
            ELSE Ok(file.settings)

\* settings::repo::load; file is what .hatch.toml holds: its status and, when
\* it parses, the RepoSettings it declares
load(file) ==
  IF file.status = "missing"
    THEN Err(Error("failed reading hatch config file", "", ""))
  ELSE IF file.status = "malformed"
    THEN Err(Error("invalid hatch settings", "", ""))
  ELSE LET args == file.settings.args
           bad == FirstIndex([n \in 1..Len(args) |-> validate(args[n]) # None])
       IN IF bad # 0
            THEN Err(Error("invalid setting", args[bad].name, Unwrap(validate(args[bad]))))
            ELSE Ok(file.settings)

\* ------------------------------------------------------------ new_context
ProjectName == "demo"

\* the keys new_context inserts before it asks for the crate type
IdentityContext ==
  [key \in {"project_name", "git_author", "git_name", "git_email"} |->
     CASE key = "project_name" -> Val("String", ProjectName)
       [] key = "git_author" -> Val("String", "me <me@example.org>")
       [] key = "git_name" -> Val("String", "me")
       [] key = "git_email" -> Val("String", "me@example.org")]

CrateTypeSetting == [type |-> "List", values |-> <<"bin", "lib">>, default |-> None]

\* the three crate type keys new_context inserts
WithCrateType(c, crate_type) ==
  Insert(Insert(Insert(c, "crate_type", Val("String", crate_type)),
                "crate_bin", Val("Bool", crate_type = "bin")),
         "crate_lib", Val("Bool", crate_type = "lib"))

\* ------------------------------------------------------------------ files
\* RepoFile: relative name (a path is the sequence of its components), the
\* bytes found at its full path, and ignore_from
RepoFile(name, content, ignore_from) ==
  [name |-> name, content |-> content, ignore_from |-> ignore_from]

FILTERS == {".git", ".hatch.toml", ".hatchignore"}

\* the bytes of a file no template can be read from
Binary == [k |-> "bin", text |-> "PNG"]

FileName(name) == name[Len(name)]

\* Utf8Path::parent of a relative name: Some for every name, "" for a top
\* level file
Parent(name) == SubSeq(name, 1, Len(name) - 1)

\* templates::is_binary, by the media type of the file name
is_binary(name) == FileName(name) \in {"logo.png", "font.ttf", "doc.pdf"}

\* the bytes of an ignore file with one line, the file name to ignore
IgnoreFile(pattern) == [k |-> "ignore", text |-> pattern]

\* add_custom_ignore_filename(".hatchignore"): a line without a slash in the
\* ignore file of a directory excludes the entries of that name in the
\* directory and below it
IgnoredByFile(dir, name) ==
  \E j \in 1..Len(dir) :
    /\ FileName(dir[j].name) = ".hatchignore"
    /\ dir[j].content.k = "ignore"
    /\ Len(dir[j].name) <= Len(name)
    /\ SubSeq(name, 1, Len(dir[j].name) - 1) = Parent(dir[j].name)
    /\ \E i \in Len(dir[j].name)..Len(name) : name[i] = dir[j].content.text

\* collect_files whose filter_entry looks at the entries of the source root
\* only
collect_files_top_only(dir) ==
  LET kept == SelectSeq(dir, LAMBDA entry :
                /\ entry.name[1] \notin FILTERS
                /\ ~IgnoredByFile(dir, entry.name))
  IN [i \in 1..Len(kept) |->
        RepoFile(kept[i].name, kept[i].content,
                 IF is_binary(kept[i].name) THEN Some("Template") ELSE None)]

\* templates::collect_files over the regular files of the source tree in
\* walk order; the walk leaves out what an ignore file excludes, and
\* filter_entry drops an entry, file or directory, and everything below it
collect_files(dir) ==
  LET kept == SelectSeq(dir, LAMBDA entry :
                /\ \A i \in 1..Len(entry.name) : entry.name[i] \notin FILTERS
                /\ ~IgnoredByFile(dir, entry.name))
  IN [i \in 1..Len(kept) |->
        RepoFile(kept[i].name, kept[i].content,
                 IF is_binary(kept[i].name) THEN Some("Template") ELSE None)]

\* a glob built with literal_separator(true): one pattern per path
\* component, "*" matches any one component and never crosses a separator
GlobMatch(glob, name) ==
  /\ Len(glob) = Len(name)
  /\ \A i \in 1..Len(glob) : glob[i] = "*" \/ glob[i] = name[i]

\* GlobSet::is_match
is_match(set, name) == \E glob \in set : GlobMatch(glob, name)

\* GlobBuilder::build fails on a pattern with an unclosed character class
ValidGlob(glob) == \A i \in 1..Len(glob) : glob[i] # "["

IgnorePattern(paths, condition, ignore_from) ==
  [paths |-> paths, condition |-> condition, ignore_from |-> ignore_from]

\* the loop of file_ignore_to_glob_set from rule i on, set being the globs
\* added so far
RECURSIVE GlobSetFrom(_, _, _, _, _)
GlobSetFrom(context, ignore, ignore_filter, i, set) ==
  IF i > Len(ignore) THEN Ok(set)
  ELSE IF ignore[i].ignore_from # ignore_filter
    THEN GlobSetFrom(context, ignore, ignore_filter, i + 1, set)
  ELSE LET rule == ignore[i]
           active == IF IsSome(rule.condition)
                       THEN EvalCondition(Unwrap(rule.condition), context)
                       ELSE Ok(TRUE)
       IN IF ~active.ok THEN active
          ELSE IF ~active.v THEN GlobSetFrom(context, ignore, ignore_filter, i + 1, set)
          ELSE IF \E j \in 1..Len(rule.paths) : ~ValidGlob(rule.paths[j])
            THEN Err(Error("invalid glob pattern", "", ""))
          ELSE GlobSetFrom(context, ignore, ignore_filter, i + 1,
                           set \cup {rule.paths[j] : j \in 1..Len(rule.paths)})

\* file_ignore_to_glob_set that never looks at the condition of a rule
file_ignore_to_glob_set_unconditional(context, ignore, ignore_filter) ==
  Ok(UNION {{ignore[i].paths[j] : j \in 1..Len(ignore[i].paths)} :
              i \in {n \in 1..Len(ignore) : ignore[n].ignore_from = ignore_filter}})

\* templates::file_ignore_to_glob_set
file_ignore_to_glob_set(context, ignore, ignore_filter) ==
  GlobSetFrom(context, ignore, ignore_filter, 1, {})

\* Reclassify that looks at the render rules before the template rules
Reclassify_render_first(file, template_ignore, render_ignore) ==
  IF is_match(render_ignore, file.name)
    THEN [file EXCEPT !.ignore_from = Some("Render")]
  ELSE IF is_match(template_ignore, file.name)
    THEN [file EXCEPT !.ignore_from = Some("Template")]
  ELSE file

\* Reclassify that leaves a file sniffed as binary as it is
Reclassify_sniffed(file, template_ignore, render_ignore) ==
  IF is_match(template_ignore, file.name)
    THEN [file EXCEPT !.ignore_from = Some("Template")]
  ELSE IF is_match(render_ignore, file.name) /\ file.ignore_from = None
    THEN [file EXCEPT !.ignore_from = Some("Render")]
  ELSE file

\* the closure filter_ignored maps over the files that are kept
Reclassify(file, template_ignore, render_ignore) ==
  IF is_match(template_ignore, file.name)
    THEN [file EXCEPT !.ignore_from = Some("Template")]
  ELSE IF is_match(render_ignore, file.name)
    THEN [file EXCEPT !.ignore_from = Some("Render")]
  ELSE file

\* filter_ignored that looks at the template rules before the rules for all
\* stages
filter_ignored_template_first(files, context, ignore) ==
  LET template_ignore == file_ignore_to_glob_set(context, ignore, "Template")
      render_ignore == file_ignore_to_glob_set(context, ignore, "Render")
      all_ignore == file_ignore_to_glob_set(context, ignore, "All")
  IN IF ~template_ignore.ok THEN template_ignore
     ELSE IF ~render_ignore.ok THEN render_ignore
     ELSE IF ~all_ignore.ok THEN all_ignore
     ELSE LET kept == SelectSeq(files, LAMBDA file :
                        \/ is_match(template_ignore.v, file.name)
                        \/ ~is_match(all_ignore.v, file.name))
          IN Ok([i \in 1..Len(kept) |->
                   Reclassify(kept[i], template_ignore.v, render_ignore.v)])

\* templates::filter_ignored
filter_ignored(files, context, ignore) ==
  LET template_ignore == file_ignore_to_glob_set(context, ignore, "Template")
      render_ignore == file_ignore_to_glob_set(context, ignore, "Render")
      all_ignore == file_ignore_to_glob_set(context, ignore, "All")
  IN IF ~template_ignore.ok THEN template_ignore
     ELSE IF ~render_ignore.ok THEN render_ignore
     ELSE IF ~all_ignore.ok THEN all_ignore
     ELSE LET kept == SelectSeq(files, LAMBDA file : ~is_match(all_ignore.v, file.name))
          IN Ok([i \in 1..Len(kept) |->
                   Reclassify(kept[i], template_ignore.v, render_ignore.v)])

\* the files render hands to Tera::add_template_files
TemplateFiles(files) ==
  {i \in 1..Len(files) : files[i].ignore_from \in {None, Some("Render")}}

\* a file Tera can read and parse as a template
Compiles(content) == content.k \in {"lit", "var"}

\* fs::create_dir_all: the directory and all its ancestors
Ancestors(path) == {SubSeq(path, 1, n) : n \in 0..Len(path)}

\* the file File::create leaves before anything is written to it
EmptyFile == Lit("")

\* writing bytes to a path of the target
WriteFile(fs, name, bytes) ==
  [n \in DOMAIN fs \cup {name} |-> IF n = name THEN bytes ELSE fs[n]]

\* ------------------------------------------------------------------ state
VARIABLES
  vsetting,      \* the setting type under validation
  verdict,       \* Pending, or the result of RepoSetting::validate
  traitVerdict,  \* Pending, or the result of the trait method Setting::validate
  pc,            \* the statement of generate_project that runs next
  hatchFile,     \* .hatch.toml of the template: status and declared settings
  gitConfig,     \* whether git config holds user.name and user.email
  tree,          \* the entries of the template directory, in walk order
  defaults,      \* the external defaults of the bookmark, by setting name
  update_deps,   \* flags.update_deps
  files,         \* the RepoFile list generate_project holds
  repo_settings, \* the RepoSettings load returned, <<>> before
  context,       \* the TeraContext generate_project holds
  idx,           \* position of fill_context in args
  prompted,      \* the calls of prompt functions so far, in order
  tera,          \* the names of the templates render compiled
  cursor,        \* position of render in the file list
  target,        \* the files of the target directory with their bytes
  dirs,          \* the directories created in the target
  error,         \* the error generate_project returned, None while it runs
  psetting,      \* the setting type an interactive prompt was built for
  pdefault,      \* the default argument of the prompt function
  pinput,        \* what the operator entered so far: lines, or keys
  pindex,        \* the highlighted entry of a list prompt, counted from 1
  pselection,    \* the positions of the ticked entries of a list prompt
  presult,       \* None while the prompt waits, or the Result it returned
  url,           \* the git URL find_repo_name is called with, as characters
  repo_name,     \* None before the call, or what find_repo_name returned
  index,         \* the crate index: the latest version by name and requirement
  file_content,  \* the Cargo.toml document as it was read
  doc,           \* the document update_versions edits
  table,         \* how many dependency tables were handled
  updates        \* the Update lists the calls of update_versions returned

vvars == <<vsetting, verdict, traitVerdict>>

qvars == <<psetting, pdefault, pinput, pindex, pselection, presult>>

rvars == <<url, repo_name>>

cvars == <<index, file_content, doc, table, updates>>

\* what generate_project never assigns: the inputs of the run, the setting
\* under validation, the prompt on its own and the functions on their own
fixed ==
  <<vsetting, verdict, traitVerdict, hatchFile, gitConfig, tree, update_deps,
    psetting, pdefault, pinput, pindex, pselection, presult,
    url, repo_name, index, file_content, doc, table, updates>>

pvars ==
  <<pc, hatchFile, gitConfig, tree, defaults, update_deps, files, repo_settings,
    context, idx, prompted, tera, cursor, target, dirs, error>>

vars ==
  <<vsetting, verdict, traitVerdict, pc, hatchFile, gitConfig, tree, defaults,
    update_deps, files, repo_settings, context, idx, prompted, tera, cursor,
    target, dirs, error, psetting, pdefault, pinput, pindex, pselection, presult,
    url, repo_name, index, file_content, doc, table, updates>>

Pending == <<"pending", "pending">>

\* the empty map: an empty TeraContext, an empty HashMap, an empty directory
Empty == <<>>

\* ------------------------------------------------ the inputs of the model
\* the setting types a template of the model declares as its first setting
FirstTypes ==
  {s \in BoolSettings : s.default # Some(FALSE)}
    \cup {s \in StringSettings : s.default = None /\ s.validator = None}
    \cup {s \in NumberSettings :
            s.min = 0 /\ s.max \in {0, MaxNum} /\ s.default \in {None, Some(1)}}
    \cup {s \in FloatSettings : s.min = 0 /\ s.max = MaxNum /\ s.default = None}
    \cup {s \in ListSettings :
            s.values \in {<<>>, <<"a", "b">>} /\ s.default \in {None, Some("b")}}
    \cup {s \in MultiListSettings :
            s.values = <<"a", "b">> /\ s.default \in {None, Some({"b"}), Some({"c"})}}

\* the setting types of the settings declared after the first
LaterTypes ==
  {s \in BoolSettings : s.default = None}
    \cup {s \in NumberSettings : s.min = 0 /\ s.max \in {0, MaxNum} /\ s.default = None}

ArgNames == <<"s1", "s2", "s3", "s4">>

\* the names a template can give its settings: any key but crate_type and
\* ignore, which are fields of RepoSettings; the first setting of the model
\* may take the name of a key new_context inserts
NamesAt(i) == IF i = 1 THEN {ArgNames[1], "project_name"} ELSE {ArgNames[i]}

\* the activation conditions of the model; a later setting may refer to the
\* setting declared before it
ConditionsAt(i) ==
  IF i = 1
    THEN {None, Some(Var("crate_bin")), Some(Lit("maybe"))}
    ELSE {None, Some(Var(ArgNames[i - 1]))}

TypesAt(i) == IF i = 1 THEN FirstTypes ELSE LaterTypes

\* the external defaults a bookmark of the model supplies
DefaultSettings ==
  {DefaultSetting("Bool", TRUE, skip) : skip \in BOOLEAN}
    \cup {DefaultSetting("String", "a", skip) : skip \in BOOLEAN}
    \cup {DefaultSetting("Number", n, skip) : n \in {1, MaxNum + 1}, skip \in BOOLEAN}
    \cup {DefaultSetting("Float", 1, skip) : skip \in BOOLEAN}
    \cup {DefaultSetting("List", v, skip) : v \in {"a", "c"}, skip \in BOOLEAN}
    \cup {DefaultSetting("MultiList", v, skip) : v \in {{"a"}, {"c"}}, skip \in BOOLEAN}

DefaultsAt(i) ==
  IF i = 1
    THEN {None} \cup {Some(d) : d \in DefaultSettings}
    ELSE {None, Some(DefaultSetting("Bool", TRUE, TRUE))}

\* a declared setting together with the external default of its name
Declarations(i) ==
  {[setting |-> RepoSetting(name, cond, ty), default |-> d] :
     name \in NamesAt(i), cond \in ConditionsAt(i), ty \in TypesAt(i),
     d \in DefaultsAt(i)}

\* the declaration lists of at most n settings
RECURSIVE DeclarationLists(_)
DeclarationLists(n) ==
  IF n = 0 THEN {<<>>}
  ELSE LET shorter == DeclarationLists(n - 1)
       IN shorter \cup {Append(l, d) : l \in {x \in shorter : Len(x) = n - 1},
                                       d \in Declarations(n)}

ArgsOf(decls) == [i \in 1..Len(decls) |-> decls[i].setting]

DefaultsOf(decls) ==
  [name \in {decls[i].setting.name : i \in {j \in 1..Len(decls) : decls[j].default # None}} |->
     LET i == CHOOSE j \in 1..Len(decls) : decls[j].setting.name = name
     IN Unwrap(decls[i].default)]

RepoSettings(crate_type, ignore, args) ==
  [crate_type |-> crate_type, ignore |-> ignore, args |-> args]

HatchFile(status, settings) == [status |-> status, settings |-> settings]

Entry(name, content) == [name |-> name, content |-> content]

\* the source trees of the model: the configuration file and any of a
\* manifest, an image (a bitmap, or text that the file name does not tell)
\* and a source file in a directory
Trees ==
  {<<Entry(<<".hatch.toml">>, Lit("config"))>> \o manifest \o image \o source :
     manifest \in {<<>>} \cup {<<Entry(<<"Cargo.toml">>, c)>> :
                                 c \in {Var("project_name"), BadSyntax}},
     image \in {<<>>} \cup {<<Entry(<<"logo.png">>, c)>> :
                              c \in {Binary, Var("project_name")}},
     source \in {<<Entry(<<"src", "lib.rs">>, Lit("hello"))>>}}

\* source trees with nested directories: a repository directory, an ignore
\* file and a file it names, and below directories a second configuration
\* file, the link file of a submodule, a source file (with a key of the
\* context, or with a key no context has) and a file in a directory named
\* like the configuration file or a test
DeepTrees ==
  {<<Entry(<<".hatch.toml">>, Lit("config"))>> \o a \o b \o c \o d \o e \o f \o g :
     a \in {<<>>, <<Entry(<<".git", "config">>, Lit("bare"))>>},
     b \in {<<>>, <<Entry(<<".hatchignore">>, IgnoreFile("notes.md"))>>},
     c \in {<<>>, <<Entry(<<"notes.md">>, Lit("todo"))>>},
     d \in {<<>>, <<Entry(<<"sub", ".hatch.toml">>, Lit("config"))>>},
     e \in {<<>>, <<Entry(<<"sub", ".git">>, Lit("gitdir"))>>},
     f \in {<<>>, <<Entry(<<"sub", "main.rs">>, Var("project_name"))>>,
                  <<Entry(<<"sub", "main.rs">>, Var("license"))>>,
                  <<Entry(<<"sub", "notes.md">>, Lit("todo"))>>},
     g \in {<<>>, <<Entry(<<"docs", ".hatch.toml", "readme.md">>, Lit("hello"))>>,
                  <<Entry(<<"tests", "it.rs">>, Lit("hello"))>>}}

SmallTree ==
  <<Entry(<<".hatch.toml">>, Lit("config")),
    Entry(<<"Cargo.toml">>, Var("project_name")),
    Entry(<<"logo.png">>, Binary)>>

\* the ignore rules of the model
IgnorePatterns ==
  {IgnorePattern(<<glob>>, cond, scope) :
     glob \in {<<"*">>, <<"logo.png">>, <<"src", "*">>},
     cond \in {None, Some(Var("crate_bin")), Some(Lit("maybe"))},
     scope \in {"All", "Template", "Render"}}

RECURSIVE RuleLists(_)
RuleLists(n) ==
  IF n = 0 THEN {<<>>}
  ELSE LET shorter == RuleLists(n - 1)
       IN shorter \cup {Append(l, r) : l \in {x \in shorter : Len(x) = n - 1},
                                       r \in IgnorePatterns}

IdleValidate ==
  /\ vsetting = [type |-> "Bool", default |-> None]
  /\ verdict = Pending
  /\ traitVerdict = Pending

\* no prompt is under study on its own
IdlePrompt ==
  /\ psetting = [type |-> "Bool", default |-> None]
  /\ pdefault = None
  /\ pinput = <<>>
  /\ pindex = 0
  /\ pselection = {}
  /\ presult = None

\* no function is under study on its own
IdleFunctions ==
  /\ url = <<>>
  /\ repo_name = None
  /\ index = {}
  /\ file_content = Empty
  /\ doc = Empty
  /\ table = 0
  /\ updates = <<>>

\* generate_project is about to start on an empty target
Start ==
  /\ pc = "collect_files"
  /\ files = <<>>
  /\ repo_settings = None
  /\ context = Empty
  /\ idx = 0
  /\ prompted = <<>>
  /\ tera = {}
  /\ cursor = 0
  /\ target = Empty
  /\ dirs = {}
  /\ error = None

\* templates that differ in their settings and external defaults
InitSettings ==
  \E decls \in DeclarationLists(MaxArgs), crate_type \in {None, Some("lib")} :
    /\ hatchFile = HatchFile("ok", RepoSettings(crate_type, <<>>, ArgsOf(decls)))
    /\ defaults = DefaultsOf(decls)
    /\ gitConfig = TRUE
    /\ tree = SmallTree
    /\ update_deps = FALSE

\* templates that differ in their files and ignore rules
InitFiles ==
  \E ignore \in RuleLists(MaxRules), crate_type \in {Some("bin"), Some("lib")} :
    /\ hatchFile = HatchFile("ok", RepoSettings(crate_type, ignore, <<>>))
    /\ defaults = Empty
    /\ gitConfig = TRUE
    /\ tree \in Trees
    /\ update_deps = FALSE

\* runs that differ in the environment
InitEnvironment ==
  /\ hatchFile \in {HatchFile(status, RepoSettings(Some("bin"), <<>>, <<>>)) :
                      status \in {"ok", "missing", "malformed"}}
  /\ defaults = Empty
  /\ gitConfig \in BOOLEAN
  /\ tree \in Trees
  /\ update_deps \in BOOLEAN

\* templates that differ in the layout of their source tree
InitTrees ==
  \E ignore \in RuleLists(1) :
    /\ hatchFile = HatchFile("ok", RepoSettings(Some("bin"), ignore, <<>>))
    /\ defaults = Empty
    /\ gitConfig = TRUE
    /\ tree \in DeepTrees
    /\ update_deps = FALSE

Init ==
  /\ IdleValidate
  /\ IdlePrompt
  /\ IdleFunctions
  /\ Start
  /\ InitSettings \/ InitFiles \/ InitEnvironment \/ InitTrees


\* ------------------------------------------------------- generate_project
\* a ? of generate_project: it returns the error
Fail(e) ==
  /\ pc' = "failed"
  /\ error' = Some(e)

\* HashMap::remove
Lookup(map, name) == IF name \in DOMAIN map THEN Some(map[name]) ELSE None

Remove(map, name) == [n \in DOMAIN map \ {name} |-> map[n]]

\* the prompt function returned because the operator cancelled
IsCancelled(res) == ~res.ok /\ res.err.kind = "cancelled"

\* one entry of the log of prompt function calls
PromptCall(name, r) ==
  [name |-> name, presented |-> r.presented, shown |-> r.shown,
   cancelled |-> IsCancelled(r.res)]

CrateTypeQuestion == "what crate type would you like to create?"

\* let files = templates::collect_files(path)?
CollectFiles ==
  /\ pc = "collect_files"
  /\ files' = collect_files(tree)
  /\ pc' = "load_repo"
  /\ UNCHANGED <<defaults, repo_settings, context, idx, prompted, tera, cursor,
                 target, dirs, error>>
  /\ UNCHANGED fixed

\* let repo_settings = settings::load_repo(path)?
LoadRepo ==
  /\ pc = "load_repo"
  /\ LET loaded == load(hatchFile)
     IN IF loaded.ok
          THEN /\ repo_settings' = Some(loaded.v)
               /\ pc' = "new_context"
               /\ UNCHANGED error
          ELSE /\ Fail(loaded.err)
               /\ UNCHANGED repo_settings
  /\ UNCHANGED <<defaults, files, context, idx, prompted, tera, cursor, target, dirs>>
  /\ UNCHANGED fixed

\* settings::new_context without user.name or user.email in the git config
NewContextNoIdentity ==
  /\ pc = "new_context"
  /\ ~gitConfig
  /\ Fail(Error("failed getting name from git config", "", ""))
  /\ UNCHANGED <<defaults, files, repo_settings, context, idx, prompted, tera,
                 cursor, target, dirs>>
  /\ UNCHANGED fixed

\* settings::new_context of a template that declares its crate type
NewContextDeclared ==
  /\ pc = "new_context"
  /\ gitConfig
  /\ IsSome(Unwrap(repo_settings).crate_type)
  /\ context' = WithCrateType(IdentityContext, Unwrap(Unwrap(repo_settings).crate_type))
  /\ pc' = "fill_context"
  /\ idx' = 1
  /\ UNCHANGED <<defaults, files, repo_settings, prompted, tera, cursor, target,
                 dirs, error>>
  /\ UNCHANGED fixed

\* settings::new_context of a template that leaves the crate type open
NewContextAsked ==
  /\ pc = "new_context"
  /\ gitConfig
  /\ Unwrap(repo_settings).crate_type = None
  /\ \E answer \in prompt_list(CrateTypeSetting, None) :
       /\ prompted' = Append(prompted, PromptCall(CrateTypeQuestion, answer))
       /\ IF answer.res.ok
            THEN /\ context' = WithCrateType(IdentityContext, answer.res.v)
                 /\ pc' = "fill_context"
                 /\ idx' = 1
                 /\ UNCHANGED error
            ELSE /\ Fail(answer.res.err)
                 /\ UNCHANGED <<context, idx>>
  /\ UNCHANGED <<defaults, files, repo_settings, tera, cursor, target, dirs>>
  /\ UNCHANGED fixed

\* the setting fill_context is at
Current == Unwrap(repo_settings).args[idx]

InFillContext ==
  /\ pc = "fill_context"
  /\ idx <= Len(Unwrap(repo_settings).args)

\* the activation of the current setting: Ok(TRUE) without a condition
Activation ==
  IF IsSome(Current.condition)
    THEN EvalCondition(Unwrap(Current.condition), context)
    ELSE Ok(TRUE)

\* fill_context: the condition of the setting does not evaluate to a boolean
FillConditionError ==
  /\ InFillContext
  /\ ~Activation.ok
  /\ Fail(Activation.err)
  /\ UNCHANGED <<defaults, files, repo_settings, context, idx, prompted, tera,
                 cursor, target, dirs>>
  /\ UNCHANGED fixed

\* FillInactive that still takes the external default of the setting
FillInactive_default ==
  /\ InFillContext
  /\ Activation.ok /\ ~Activation.v
  /\ idx' = idx + 1
  /\ context' = IF Current.name \in DOMAIN defaults
                   THEN Insert(context, Current.name, defaults[Current.name].value)
                   ELSE context
  /\ UNCHANGED <<pc, defaults, files, repo_settings, prompted, tera, cursor, target,
                 dirs, error>>
  /\ UNCHANGED fixed

\* fill_context: the setting is not active, continue with the next
FillInactive ==
  /\ InFillContext
  /\ Activation.ok /\ ~Activation.v
  /\ idx' = idx + 1
  /\ UNCHANGED <<pc, defaults, files, repo_settings, context, prompted, tera,
                 cursor, target, dirs, error>>
  /\ UNCHANGED fixed

\* FillActive that puts the external defaults of the settings that follow
\* into the context as well
FillActive_seeded ==
  /\ InFillContext
  /\ Activation.ok /\ Activation.v
  /\ \E r \in run(Current.ty, Lookup(defaults, Current.name)) :
       /\ defaults' = Remove(defaults, Current.name)
       /\ prompted' = IF r.prompted
                        THEN Append(prompted, PromptCall(Current.name, r))
                        ELSE prompted
       /\ IF r.res.ok
            THEN /\ context' =
                      [k \in DOMAIN context \cup DOMAIN defaults |->
                         IF k = Current.name
                           THEN ToValue(Current.ty, r.res.v, r.prompted)
                         ELSE IF k \in DOMAIN defaults THEN defaults[k].value
                         ELSE context[k]]
                 /\ idx' = idx + 1
                 /\ UNCHANGED <<pc, error>>
            ELSE /\ Fail(r.res.err)
                 /\ UNCHANGED <<context, idx>>
  /\ UNCHANGED <<files, repo_settings, tera, cursor, target, dirs>>
  /\ UNCHANGED fixed

\* FillActive that takes back what fill_context inserted when run fails
FillActive_rollback ==
  /\ InFillContext
  /\ Activation.ok /\ Activation.v
  /\ \E r \in run(Current.ty, Lookup(defaults, Current.name)) :
       /\ defaults' = Remove(defaults, Current.name)
       /\ prompted' = IF r.prompted
                        THEN Append(prompted, PromptCall(Current.name, r))
                        ELSE prompted
       /\ IF r.res.ok
            THEN /\ context' = Insert(context, Current.name,
                                      ToValue(Current.ty, r.res.v, r.prompted))
                 /\ idx' = idx + 1
                 /\ UNCHANGED <<pc, error>>
            ELSE /\ Fail(r.res.err)
                 /\ context' = WithCrateType(IdentityContext, context["crate_type"].v)
                 /\ UNCHANGED idx
  /\ UNCHANGED <<files, repo_settings, tera, cursor, target, dirs>>
  /\ UNCHANGED fixed

\* FillActive that goes on with the next setting when the operator cancels
FillActive_continue ==
  /\ InFillContext
  /\ Activation.ok /\ Activation.v
  /\ \E r \in run(Current.ty, Lookup(defaults, Current.name)) :
       /\ defaults' = Remove(defaults, Current.name)
       /\ prompted' = IF r.prompted
                        THEN Append(prompted, PromptCall(Current.name, r))
                        ELSE prompted
       /\ IF r.res.ok
            THEN /\ context' = Insert(context, Current.name,
                                      ToValue(Current.ty, r.res.v, r.prompted))
                 /\ idx' = idx + 1
                 /\ UNCHANGED <<pc, error>>
            ELSE IF IsCancelled(r.res)
              THEN /\ idx' = idx + 1
                   /\ UNCHANGED <<pc, error, context>>
            ELSE /\ Fail(r.res.err)
                 /\ UNCHANGED <<context, idx>>
  /\ UNCHANGED <<files, repo_settings, tera, cursor, target, dirs>>
  /\ UNCHANGED fixed

\* fill_context: the setting is active, run resolves it and the value is
\* inserted, or run fails and fill_context returns the error
FillActive ==
  /\ InFillContext
  /\ Activation.ok /\ Activation.v
  /\ \E r \in run(Current.ty, Lookup(defaults, Current.name)) :
       /\ defaults' = Remove(defaults, Current.name)
       /\ prompted' = IF r.prompted
                        THEN Append(prompted, PromptCall(Current.name, r))
                        ELSE prompted
       /\ IF r.res.ok
            THEN /\ context' = Insert(context, Current.name,
                                      ToValue(Current.ty, r.res.v, r.prompted))
                 /\ idx' = idx + 1
                 /\ UNCHANGED <<pc, error>>
            ELSE /\ Fail(r.res.err)
                 /\ UNCHANGED <<context, idx>>
  /\ UNCHANGED <<files, repo_settings, tera, cursor, target, dirs>>
  /\ UNCHANGED fixed

\* fill_context returns Ok(())
FillDone ==
  /\ pc = "fill_context"
  /\ idx > Len(Unwrap(repo_settings).args)
  /\ pc' = "filter_ignored"
  /\ UNCHANGED <<defaults, files, repo_settings, context, idx, prompted, tera,
                 cursor, target, dirs, error>>
  /\ UNCHANGED fixed

\* let files = templates::filter_ignored(files, &context, repo_settings.ignore)?
FilterIgnored ==
  /\ pc = "filter_ignored"
  /\ LET filtered == filter_ignored(files, context, Unwrap(repo_settings).ignore)
     IN IF filtered.ok
          THEN /\ files' = filtered.v
               /\ pc' = "render"
               /\ UNCHANGED error
          ELSE /\ Fail(filtered.err)
               /\ UNCHANGED files
  /\ UNCHANGED <<defaults, repo_settings, context, idx, prompted, tera, cursor,
                 target, dirs>>
  /\ UNCHANGED fixed

\* RenderCompile that creates the target directory before it compiles
RenderCompile_dir_first ==
  /\ pc = "render"
  /\ dirs' = dirs \cup Ancestors(<<>>)
  /\ IF \A i \in TemplateFiles(files) : Compiles(files[i].content)
       THEN /\ tera' = {files[i].name : i \in TemplateFiles(files)}
            /\ cursor' = 1
            /\ pc' = "render_files"
            /\ UNCHANGED error
       ELSE /\ Fail(Error("failed loading templates", "", ""))
            /\ UNCHANGED <<tera, cursor>>
  /\ UNCHANGED <<defaults, files, repo_settings, context, idx, prompted, target>>
  /\ UNCHANGED fixed

\* templates::render up to its loop: the templates are compiled and the
\* target directory is created
RenderCompile ==
  /\ pc = "render"
  /\ IF \A i \in TemplateFiles(files) : Compiles(files[i].content)
       THEN /\ tera' = {files[i].name : i \in TemplateFiles(files)}
            /\ dirs' = dirs \cup Ancestors(<<>>)
            /\ cursor' = 1
            /\ pc' = "render_files"
            /\ UNCHANGED error
       ELSE /\ Fail(Error("failed loading templates", "", ""))
            /\ UNCHANGED <<tera, dirs, cursor>>
  /\ UNCHANGED <<defaults, files, repo_settings, context, idx, prompted, target>>
  /\ UNCHANGED fixed

InRenderLoop ==
  /\ pc = "render_files"
  /\ cursor <= Len(files)

\* RenderTemplateFile that writes the bytes of the source
RenderTemplateFile_verbatim ==
  /\ InRenderLoop
  /\ files[cursor].ignore_from = None
  /\ dirs' = dirs \cup Ancestors(Parent(files[cursor].name))
  /\ target' = WriteFile(target, files[cursor].name, files[cursor].content)
  /\ cursor' = cursor + 1
  /\ UNCHANGED <<pc, defaults, files, repo_settings, context, idx, prompted, tera,
                 error>>
  /\ UNCHANGED fixed

\* RenderTemplateFile that empties the target when a template fails
RenderTemplateFile_rollback ==
  /\ InRenderLoop
  /\ files[cursor].ignore_from = None
  /\ dirs' = dirs \cup Ancestors(Parent(files[cursor].name))
  /\ LET rendered == RenderTemplate(files[cursor].content, context)
     IN IF rendered.ok
          THEN /\ target' = WriteFile(target, files[cursor].name, Lit(rendered.v))
               /\ cursor' = cursor + 1
               /\ UNCHANGED <<pc, error>>
          ELSE /\ target' = Empty
               /\ Fail(rendered.err)
               /\ UNCHANGED cursor
  /\ UNCHANGED <<defaults, files, repo_settings, context, idx, prompted, tera>>
  /\ UNCHANGED fixed

\* one round of the loop of render on a file that is not ignored from
\* templating: it is created, rendered and flushed
RenderTemplateFile ==
  /\ InRenderLoop
  /\ files[cursor].ignore_from = None
  /\ dirs' = dirs \cup Ancestors(Parent(files[cursor].name))
  /\ LET rendered == RenderTemplate(files[cursor].content, context)
     IN IF rendered.ok
          THEN /\ target' = WriteFile(target, files[cursor].name, Lit(rendered.v))
               /\ cursor' = cursor + 1
               /\ UNCHANGED <<pc, error>>
          ELSE /\ target' = WriteFile(target, files[cursor].name, EmptyFile)
               /\ Fail(rendered.err)
               /\ UNCHANGED cursor
  /\ UNCHANGED <<defaults, files, repo_settings, context, idx, prompted, tera>>
  /\ UNCHANGED fixed

\* one round of the loop of render on a file ignored from templating: it is
\* copied
RenderCopyFile ==
  /\ InRenderLoop
  /\ files[cursor].ignore_from = Some("Template")
  /\ dirs' = dirs \cup Ancestors(Parent(files[cursor].name))
  /\ target' = WriteFile(target, files[cursor].name, files[cursor].content)
  /\ cursor' = cursor + 1
  /\ UNCHANGED <<pc, defaults, files, repo_settings, context, idx, prompted, tera,
                 error>>
  /\ UNCHANGED fixed

\* one round of the loop of render on a file with any other ignore_from:
\* only the parent directory is created
RenderOtherFile ==
  /\ InRenderLoop
  /\ files[cursor].ignore_from \notin {None, Some("Template")}
  /\ dirs' = dirs \cup Ancestors(Parent(files[cursor].name))
  /\ cursor' = cursor + 1
  /\ UNCHANGED <<pc, defaults, files, repo_settings, context, idx, prompted, tera,
                 target, error>>
  /\ UNCHANGED fixed

\* one round of the loop of render in which the file system refuses the
\* first operation: create_dir_all fails
RenderIoError ==
  /\ InRenderLoop
  /\ Fail(Error("failed to directories", "", ""))
  /\ UNCHANGED <<defaults, files, repo_settings, context, idx, prompted, tera,
                 cursor, target, dirs>>
  /\ UNCHANGED fixed

\* render that is always followed by the update of the dependencies
RenderDone_always_update ==
  /\ pc = "render_files"
  /\ cursor > Len(files)
  /\ pc' = "update_deps"
  /\ UNCHANGED <<defaults, files, repo_settings, context, idx, prompted, tera,
                 cursor, target, dirs, error>>
  /\ UNCHANGED fixed

\* render returns Ok(())
RenderDone ==
  /\ pc = "render_files"
  /\ cursor > Len(files)
  /\ pc' = IF update_deps THEN "update_deps" ELSE "init"
  /\ UNCHANGED <<defaults, files, repo_settings, context, idx, prompted, tera,
                 cursor, target, dirs, error>>
  /\ UNCHANGED fixed

\* cargo::update_all_cargo_tomls(&target, &files)?
UpdateDeps ==
  /\ pc = "update_deps"
  /\ pc' = "init"
  /\ UNCHANGED <<defaults, files, repo_settings, context, idx, prompted, tera,
                 cursor, target, dirs, error>>
  /\ UNCHANGED fixed

\* cargo::update_all_cargo_tomls fails: the index cannot be opened or
\* updated, or a manifest cannot be read or parsed
UpdateDepsError ==
  /\ pc = "update_deps"
  /\ Fail(Error("index", "", ""))
  /\ UNCHANGED <<defaults, files, repo_settings, context, idx, prompted, tera,
                 cursor, target, dirs>>
  /\ UNCHANGED fixed

\* repo::init(&target)?
GitInit ==
  /\ pc = "init"
  /\ pc' = "done"
  /\ UNCHANGED <<defaults, files, repo_settings, context, idx, prompted, tera,
                 cursor, target, dirs, error>>
  /\ UNCHANGED fixed

Next ==
  \/ CollectFiles
  \/ LoadRepo
  \/ NewContextNoIdentity
  \/ NewContextDeclared
  \/ NewContextAsked
  \/ FillConditionError
  \/ FillInactive
  \/ FillActive
  \/ FillDone
  \/ FilterIgnored
  \/ RenderCompile
  \/ RenderTemplateFile
  \/ RenderCopyFile
  \/ RenderOtherFile
  \/ RenderIoError
  \/ RenderDone
  \/ UpdateDeps
  \/ UpdateDepsError
  \/ GitInit

Spec == Init /\ [][Next]_vars

\* ------------------------------------------------- validate on its own
\* generate_project is not running
Idle ==
  /\ pc = "idle"
  /\ hatchFile = HatchFile("missing", RepoSettings(None, <<>>, <<>>))
  /\ gitConfig = FALSE
  /\ tree = <<>>
  /\ defaults = Empty
  /\ update_deps = FALSE
  /\ files = <<>>
  /\ repo_settings = None
  /\ context = Empty
  /\ idx = 0
  /\ prompted = <<>>
  /\ tera = {}
  /\ cursor = 0
  /\ target = Empty
  /\ dirs = {}
  /\ error = None

InitValidate ==
  /\ IdleFunctions
  /\ \/ vsetting \in BoolSettings
     \/ vsetting \in StringSettings
     \/ vsetting \in NumberSettings
     \/ vsetting \in FloatSettings
     \/ vsetting \in ListSettings
     \/ vsetting \in MultiListSettings
  /\ verdict = Pending
  /\ traitVerdict = Pending
  /\ IdlePrompt
  /\ Idle

CallValidate ==
  /\ verdict = Pending
  /\ verdict' = validate(RepoSetting("s1", None, vsetting))
  /\ UNCHANGED <<vsetting, traitVerdict>>
  /\ UNCHANGED <<pvars, rvars, cvars>>
  /\ UNCHANGED qvars

CallSettingValidate ==
  /\ traitVerdict = Pending
  /\ traitVerdict' = Setting_validate(vsetting)
  /\ UNCHANGED <<vsetting, verdict>>
  /\ UNCHANGED <<pvars, rvars, cvars>>
  /\ UNCHANGED qvars

NextValidate == CallValidate \/ CallSettingValidate

SpecValidate == InitValidate /\ [][NextValidate]_vars

\* ---------------------------------------------------- a prompt on its own
\* The prompt functions as the operator meets them, input by input.  The
\* text prompts take a line at a time and ask again after a line they do
\* not accept; the multi selection takes keys: Up, Down, the toggle key
\* and Enter.  Every prompt can be left by cancelling.

\* the settings load accepts, by type
PromptSettings ==
  {s \in StringSettings \cup NumberSettings \cup FloatSettings \cup ListSettings
            \cup MultiListSettings
            \cup [type : {"MultiList"}, values : {<<"b", "a", "c">>},
                  default : {None} \cup {Some(d) : d \in SUBSET Strings}] :
     validate(RepoSetting("s1", None, s)) = None}

\* the default argument run hands to the prompt function: none, or the
\* seeded external value, which nothing has checked against the setting
PromptDefaults(s) ==
  {None} \cup
    CASE s.type = "String" -> {Some("a"), Some("1x")}
      [] s.type = "Number" -> {Some(n) : n \in Ints}
      [] s.type = "Float" -> {Some(n) : n \in Floats}
      [] s.type = "List" -> {Some("a"), Some("c")}
      [] s.type = "MultiList" -> {Some(d) : d \in SUBSET {"a", "c"}}

\* the lines an operator types at a number prompt
NumberLines == {""} \cup {NumText(n) : n \in Ints} \cup {"NaN", "x"}

\* str::parse::<T>: i64 for a Number, f64 for a Float
ParseNumber(type, line) ==
  IF \E n \in Ints : NumText(n) = line
    THEN Some(CHOOSE n \in Ints : NumText(n) = line)
  ELSE IF type = "Float" /\ line = "NaN" THEN Some(NaN)
  ELSE None

\* the parser closure of prompt_number: Some for Ok, None for Err(())
parser(type, line, min, max) ==
  LET v == ParseNumber(type, line)
  IN IF IsSome(v) /\ RangeInclusiveContains(min, max, Unwrap(v)) THEN v ELSE None

\* the default the prompt is built with
PromptDefault == OrElse(pdefault, psetting.default)

\* the prompt function up to prompt.prompt(): the checks of the default
\* argument, the starting cursor and the ticked entries
PromptStart ==
  /\ pinput = <<>>
  /\ pselection =
       IF psetting.type = "MultiList"
         THEN StartingSelection(psetting.values, PromptDefault)
         ELSE {}
  /\ pindex =
       IF psetting.type = "MultiList"
         THEN IF pselection = {} THEN 1
              ELSE CHOOSE i \in pselection : \A j \in pselection : i <= j
         ELSE IF psetting.type = "List"
           THEN StartingCursor(psetting.values, PromptDefault)
         ELSE 0
  /\ presult =
       CASE psetting.type = "String" ->
              IF IsSome(pdefault) /\ ~RunValidator(psetting.validator, Unwrap(pdefault))
                THEN Some(Err(Error("Invalid default", "", "validator")))
                ELSE None
         [] psetting.type \in {"Number", "Float"} ->
              IF /\ IsSome(pdefault)
                 /\ ~RangeInclusiveContains(psetting.min, psetting.max, Unwrap(pdefault))
                THEN Some(Err(Error("Invalid default", "", "value is not in range")))
                ELSE None
         [] psetting.type \in {"List", "MultiList"} ->
              IF psetting.values = <<>>
                THEN Some(Err(Error("invalid configuration", "", "options can not be empty")))
                ELSE None

InitPrompt ==
  /\ IdleValidate
  /\ IdleFunctions
  /\ Idle
  /\ psetting \in PromptSettings
  /\ pdefault \in PromptDefaults(psetting)
  /\ PromptStart

\* the prompt waits for input
Waiting == presult = None

\* TextSubmit that returns whatever was typed
TextSubmit_unvalidated ==
  /\ Waiting
  /\ Len(pinput) < MaxKeys
  /\ psetting.type = "String"
  /\ \E line \in TypedStrings :
       /\ pinput' = Append(pinput, line)
       /\ presult' = IF line = ""
                       THEN IF IsSome(PromptDefault) THEN Some(Ok(Unwrap(PromptDefault)))
                            ELSE None
                       ELSE Some(Ok(line))
  /\ UNCHANGED <<psetting, pdefault, pindex, pselection>>
  /\ UNCHANGED vvars
  /\ UNCHANGED <<pvars, rvars, cvars>>

\* Enter at the text prompt of prompt_string: an empty line takes the
\* default, any other line goes through the validator; a line that is not
\* accepted shows the message of the validator and the prompt goes on
TextSubmit ==
  /\ Waiting
  /\ Len(pinput) < MaxKeys
  /\ psetting.type = "String"
  /\ \E line \in TypedStrings :
       /\ pinput' = Append(pinput, line)
       /\ presult' = IF line = "" /\ IsSome(PromptDefault)
                       THEN Some(Ok(Unwrap(PromptDefault)))
                     ELSE IF RunValidator(psetting.validator, line)
                       THEN Some(Ok(line))
                     ELSE None
  /\ UNCHANGED <<psetting, pdefault, pindex, pselection>>
  /\ UNCHANGED vvars
  /\ UNCHANGED <<pvars, rvars, cvars>>

\* Enter at the prompt of prompt_number: an empty line takes the default,
\* any other line goes through the parser; a line the parser rejects shows
\* the error message and the prompt goes on
CustomTypeSubmit ==
  /\ Waiting
  /\ Len(pinput) < MaxKeys
  /\ psetting.type \in {"Number", "Float"}
  /\ \E line \in NumberLines :
       /\ pinput' = Append(pinput, line)
       /\ presult' = IF line = "" /\ IsSome(PromptDefault)
                       THEN Some(Ok(Unwrap(PromptDefault)))
                     ELSE LET parsed == parser(psetting.type, line, psetting.min, psetting.max)
                          IN IF IsSome(parsed) THEN Some(Ok(Unwrap(parsed))) ELSE None
  /\ UNCHANGED <<psetting, pdefault, pindex, pselection>>
  /\ UNCHANGED vvars
  /\ UNCHANGED <<pvars, rvars, cvars>>

\* the multi selection takes a key
InMultiSelect ==
  /\ Waiting
  /\ Len(pinput) < MaxKeys
  /\ psetting.type = "MultiList"

\* the selection of one entry or of several takes a key
InSelect ==
  /\ Waiting
  /\ Len(pinput) < MaxKeys
  /\ psetting.type \in {"List", "MultiList"}

\* KeyCode::Up: one entry up, from the first entry to the last
KeyUp ==
  /\ InSelect
  /\ pinput' = Append(pinput, "Up")
  /\ pindex' = IF pindex = 1 THEN Len(psetting.values) ELSE pindex - 1
  /\ UNCHANGED <<psetting, pdefault, pselection, presult>>
  /\ UNCHANGED vvars
  /\ UNCHANGED <<pvars, rvars, cvars>>

\* KeyCode::Down: one entry down, from the last entry to the first
KeyDown ==
  /\ InSelect
  /\ pinput' = Append(pinput, "Down")
  /\ pindex' = IF pindex = Len(psetting.values) THEN 1 ELSE pindex + 1
  /\ UNCHANGED <<psetting, pdefault, pselection, presult>>
  /\ UNCHANGED vvars
  /\ UNCHANGED <<pvars, rvars, cvars>>

\* KeyToggle that ticks the entry and never unticks it
KeyToggle_tick_only ==
  /\ InMultiSelect
  /\ pinput' = Append(pinput, "Toggle")
  /\ pselection' = pselection \cup {pindex}
  /\ UNCHANGED <<psetting, pdefault, pindex, presult>>
  /\ UNCHANGED vvars
  /\ UNCHANGED <<pvars, rvars, cvars>>

\* the toggle key: if !selection.insert(index) { selection.remove(&index) }
KeyToggle ==
  /\ InMultiSelect
  /\ pinput' = Append(pinput, "Toggle")
  /\ pselection' = IF pindex \in pselection
                     THEN pselection \ {pindex}
                     ELSE pselection \cup {pindex}
  /\ UNCHANGED <<psetting, pdefault, pindex, presult>>
  /\ UNCHANGED vvars
  /\ UNCHANGED <<pvars, rvars, cvars>>

\* KeyCode::Enter: the ticked entries, in the order of values
KeyEnter ==
  /\ Waiting
  /\ psetting.type = "MultiList"
  /\ presult' = Some(Ok(Entries(psetting.values, pselection)))
  /\ UNCHANGED <<psetting, pdefault, pinput, pindex, pselection>>
  /\ UNCHANGED vvars
  /\ UNCHANGED <<pvars, rvars, cvars>>

\* KeyCode::Enter at the selection of one entry: the entry under the cursor
SelectEnter ==
  /\ Waiting
  /\ psetting.type = "List"
  /\ presult' = Some(Ok(psetting.values[pindex]))
  /\ UNCHANGED <<psetting, pdefault, pinput, pindex, pselection>>
  /\ UNCHANGED vvars
  /\ UNCHANGED <<pvars, rvars, cvars>>

\* the operator cancels: the prompt function returns the cancellation error
PromptCancel ==
  /\ Waiting
  /\ presult' = Some(Cancelled)
  /\ UNCHANGED <<psetting, pdefault, pinput, pindex, pselection>>
  /\ UNCHANGED vvars
  /\ UNCHANGED <<pvars, rvars, cvars>>

NextPrompt ==
  \/ TextSubmit
  \/ CustomTypeSubmit
  \/ KeyUp
  \/ KeyDown
  \/ KeyToggle
  \/ KeyEnter
  \/ SelectEnter
  \/ PromptCancel

SpecPrompt == InitPrompt /\ [][NextPrompt]_vars

\* ------------------------------------------------- properties of validate
Validated == verdict # Pending /\ traitVerdict # Pending

IsNumeric == vsetting.type \in {"Number", "Float"}

\* C1: for every Number and Float setting with min >= max (min = max
\* included) validate() returns an error, whatever the default is.
C1_MinGeMaxRejected ==
  (IsNumeric /\ Validated /\ vsetting.min # NaN /\ vsetting.max # NaN
     /\ vsetting.min >= vsetting.max)
    => /\ IsSome(verdict)
       /\ IsSome(traitVerdict)

C1_Witness ==
  /\ Validated
  /\ vsetting.type = "Number"
  /\ vsetting.min = vsetting.max
  /\ vsetting.default = None
  /\ verdict = Some(MinGeMax)

\* C2: for every Number and Float setting with min < max, validate() accepts
\* the setting iff it has no default or min <= default < max: a default
\* equal to min is valid, a default equal to max is rejected.
C2_DefaultInHalfOpenRange ==
  (IsNumeric /\ Validated /\ vsetting.min # NaN /\ vsetting.max # NaN
     /\ vsetting.min < vsetting.max)
    => LET accepted == \/ vsetting.default = None
                       \/ /\ Unwrap(vsetting.default) # NaN
                          /\ vsetting.min <= Unwrap(vsetting.default)
                          /\ Unwrap(vsetting.default) < vsetting.max
       IN /\ (verdict = None) <=> accepted
          /\ (traitVerdict = None) <=> accepted

C2_Witness ==
  /\ Validated
  /\ vsetting.type = "Float"
  /\ vsetting.min = 0
  /\ vsetting.max = MaxNum
  /\ vsetting.default = Some(MaxNum)
  /\ verdict = Some(DefaultOutOfRange)
  /\ traitVerdict = Some(DefaultOutOfRange)

\* C3: validate() rejects a List setting whose default is set and is not a
\* member of values, and a MultiList setting with at least one default
\* element that is not a member of values; it accepts both when the default
\* is absent or all its elements are members of values.
C3_DefaultAmongValues ==
  (vsetting.type \in {"List", "MultiList"} /\ Validated)
    => LET members == {vsetting.values[i] : i \in 1..Len(vsetting.values)}
           chosen == IF vsetting.default = None THEN {}
                     ELSE IF vsetting.type = "List" THEN {Unwrap(vsetting.default)}
                     ELSE Unwrap(vsetting.default)
       IN /\ (verdict = None) <=> (chosen \subseteq members)
          /\ (traitVerdict = None) <=> (chosen \subseteq members)

C3_Witness ==
  /\ Validated
  /\ vsetting.type = "MultiList"
  /\ vsetting.values = <<"a", "b">>
  /\ vsetting.default = Some({"a", "c"})
  /\ verdict = Some(DefaultsNotInValues)

\* ---------------------------------------------------- properties of load
Declared == hatchFile.settings.args

Invalid(i) == validate(Declared[i]) # None

\* C4: load validates every declared setting before any prompting: when a
\* setting is invalid, load fails with an error that names the first invalid
\* setting in declaration order and its reason; when load succeeds, every
\* setting of the returned set passes validate().
C4_LoadValidatesFirst ==
  /\ pc \in {"collect_files", "load_repo"} => prompted = <<>>
  /\ (hatchFile.status = "ok" /\ pc \notin {"collect_files", "load_repo"})
       => IF \E i \in 1..Len(Declared) : Invalid(i)
            THEN /\ pc = "failed"
                 /\ prompted = <<>>
                 /\ repo_settings = None
                 /\ \E i \in 1..Len(Declared) :
                      /\ Invalid(i)
                      /\ \A j \in 1..(i - 1) : ~Invalid(j)
                      /\ error = Some(Error("invalid setting", Declared[i].name,
                                            Unwrap(validate(Declared[i]))))
            ELSE /\ repo_settings = Some(hatchFile.settings)
                 /\ \A i \in 1..Len(Unwrap(repo_settings).args) :
                      validate(Unwrap(repo_settings).args[i]) = None

C4_Witness ==
  /\ pc = "failed"
  /\ Len(Declared) = 2
  /\ Invalid(1) /\ Invalid(2)
  /\ validate(Declared[1]) # validate(Declared[2])
  /\ error = Some(Error("invalid setting", "s1", DefaultNotInValues))
  /\ prompted = <<>>

\* -------------------------------------------- properties of fill_context
\* fill_context is about to resolve the current setting, which is active
Resolving == InFillContext /\ Activation.ok /\ Activation.v

ExternalDefault == Lookup(defaults, Current.name)

\* the variant of the external default is the type of the current setting
VariantMatches == Unwrap(ExternalDefault).value.t = Current.ty.type

\* the context value that equals a DefaultValue
ValueOf(value) ==
  CASE value.t = "List" -> Val("String", value.v)
    [] value.t = "MultiList" -> Val("Set", value.v)
    [] OTHER -> value

\* C5: when an external default with skip_prompt = true exists for an active
\* setting and its variant matches the type of the setting, the value
\* inserted in the context for that setting is the external value and no
\* prompt function is invoked for the setting.
C5_SkipPromptUsesExternal ==
  [][(/\ Resolving
      /\ IsSome(ExternalDefault)
      /\ Unwrap(ExternalDefault).skip_prompt
      /\ VariantMatches)
       => /\ context' = [k \in DOMAIN context \cup {Current.name} |->
                           IF k = Current.name
                             THEN ValueOf(Unwrap(ExternalDefault).value)
                             ELSE context[k]]
          /\ prompted' = prompted
          /\ pc' = "fill_context"
          /\ idx' = idx + 1]_vars

C5_Witness ==
  /\ pc = "done"
  /\ Len(Declared) = 1
  /\ Declared[1].ty.type = "Number"
  /\ Declared[1].ty.default = Some(1)
  /\ "s1" \in DOMAIN context
  /\ context["s1"] = Val("Number", MaxNum + 1)
  /\ \A i \in 1..Len(prompted) : prompted[i].name # "s1"

\* C6: when an external default with skip_prompt = false exists for an
\* active setting and its variant matches the type of the setting, the
\* prompt function is invoked exactly once and the default the prompt
\* presents is the external value, whatever default the template declares.
C6_SeededPromptShowsExternal ==
  [][(/\ Resolving
      /\ IsSome(ExternalDefault)
      /\ ~Unwrap(ExternalDefault).skip_prompt
      /\ VariantMatches)
       => /\ Len(prompted') = Len(prompted) + 1
          /\ prompted'[Len(prompted')].name = Current.name
          /\ prompted'[Len(prompted')].presented
               => prompted'[Len(prompted')].shown = Some(Unwrap(ExternalDefault).value.v)]_vars

\* C7: when the external default of a setting has another variant than the
\* type of the setting, resolving the setting fails for both values of
\* skip_prompt: no prompt function is invoked, nothing is inserted in the
\* context and fill_context returns the error.
C7_MismatchFails ==
  [][(Resolving /\ IsSome(ExternalDefault) /\ ~VariantMatches)
       => /\ pc' = "failed"
          /\ error' = Some(Error("invalid default value", "", Current.ty.type))
          /\ prompted' = prompted
          /\ context' = context]_vars

C7_Witness ==
  /\ pc = "failed"
  /\ error = Some(Error("invalid default value", "", "Float"))
  /\ Len(Declared) >= 1
  /\ Declared[1].ty.type = "Float"
  /\ idx = 1
  /\ "s1" \notin DOMAIN context
  /\ \A i \in 1..Len(prompted) : prompted[i].name # "s1"

\* ------------------------------------ properties of filter_ignored, render
Rules == hatchFile.settings.ignore

\* a rule without condition, or with a condition that is true of the context
ActiveRule(rule) ==
  \/ rule.condition = None
  \/ LET active == EvalCondition(Unwrap(rule.condition), context)
     IN active.ok /\ active.v

\* name matches an active rule of the scope
MatchesScope(name, scope) ==
  \E i \in 1..Len(Rules) :
    /\ Rules[i].ignore_from = scope
    /\ ActiveRule(Rules[i])
    /\ \E j \in 1..Len(Rules[i].paths) : GlobMatch(Rules[i].paths[j], name)

\* the files collect_files found in the source tree
Collected == collect_files(tree)

\* filter_ignored returned the file list
AfterFilter == pc \in {"render", "render_files", "update_deps", "init", "done"}

\* render compiled the templates
AfterCompile == pc \in {"render_files", "update_deps", "init", "done"}

\* render returned Ok(())
AfterRender == pc \in {"update_deps", "init", "done"}

\* the bytes rendering a template against the context gives
RenderedBytes(content) ==
  IF content.k = "var" THEN Lit(Text(context[content.text])) ELSE content

\* C8: a file whose name matches an active AllStages rule is skipped: it is
\* not in the list filter_ignored returns and is neither compiled, copied nor
\* rendered into the target, also when it matches an active TemplateOnly or
\* RenderOnly rule.
C8_AllStagesSkipped ==
  \A i \in 1..Len(Collected) :
    MatchesScope(Collected[i].name, "All")
      => /\ Collected[i].name \notin DOMAIN target
         /\ Collected[i].name \notin tera
         /\ AfterFilter => \A k \in 1..Len(files) : files[k].name # Collected[i].name

C8_Witness ==
  /\ pc = "done"
  /\ target # Empty
  /\ \E i \in 1..Len(Collected) :
       /\ MatchesScope(Collected[i].name, "All")
       /\ MatchesScope(Collected[i].name, "Template")

RenderOnly(name) ==
  /\ ~MatchesScope(name, "All")
  /\ ~MatchesScope(name, "Template")
  /\ MatchesScope(name, "Render")

TemplateOnly(name) ==
  /\ ~MatchesScope(name, "All")
  /\ MatchesScope(name, "Template")

\* C11: a file that matches no active AllStages rule but matches an active
\* TemplateOnly rule is classified CopyVerbatim (ignore_from = Template)
\* whatever its sniffed classification, also when it matches an active
\* RenderOnly rule: it is never compiled as a template, and its output is a
\* byte copy of the source.
C11_TemplateOnlyIsCopied ==
  \A i \in 1..Len(Collected) :
    TemplateOnly(Collected[i].name)
      => /\ AfterFilter => \E k \in 1..Len(files) :
                             /\ files[k].name = Collected[i].name
                             /\ files[k].ignore_from = Some("Template")
         /\ Collected[i].name \notin tera
         /\ Collected[i].name \in DOMAIN target
              => target[Collected[i].name] = Collected[i].content
         /\ AfterRender => Collected[i].name \in DOMAIN target

C11_Witness ==
  /\ pc = "done"
  /\ \E i \in 1..Len(Collected) :
       /\ Collected[i].ignore_from = None
       /\ Collected[i].content = Var("project_name")
       /\ TemplateOnly(Collected[i].name)
       /\ MatchesScope(Collected[i].name, "Render")
       /\ Collected[i].name \notin tera
       /\ target[Collected[i].name] = Var("project_name")

\* the rules without the rule at position i
Without(rules, i) == SubSeq(rules, 1, i - 1) \o SubSeq(rules, i + 1, Len(rules))

\* the rule has a condition and it evaluates to false against the context
ConditionFalse(rule) ==
  /\ IsSome(rule.condition)
  /\ EvalCondition(Unwrap(rule.condition), context) = Ok(FALSE)

\* name matches no active rule of any scope
Unmatched(name) ==
  \A scope \in {"All", "Template", "Render"} : ~MatchesScope(name, scope)

\* fill_context returned: the context is complete
ContextComplete ==
  pc \in {"filter_ignored", "render", "render_files", "update_deps", "init", "done"}

\* C12: a rule contributes its globs only if it has no condition or its
\* condition is true of the completed context: the result of filter_ignored
\* is the result with a rule removed whose condition evaluates to false, and
\* a file that matches no active rule is in the result with the
\* classification collect_files sniffed.
C12_InactiveRuleChangesNothing ==
  ContextComplete
    => /\ \A i \in 1..Len(Rules) :
            ConditionFalse(Rules[i])
              => /\ filter_ignored(Collected, context, Rules)
                      = filter_ignored(Collected, context, Without(Rules, i))
                 /\ AfterFilter
                      => Ok(files) = filter_ignored(Collected, context, Without(Rules, i))
       /\ AfterFilter
            => \A i \in 1..Len(Collected) :
                 Unmatched(Collected[i].name)
                   => \E k \in 1..Len(files) : files[k] = Collected[i]

C12_Witness ==
  /\ pc = "done"
  /\ \E i \in 1..Len(Rules) :
       /\ ConditionFalse(Rules[i])
       /\ Rules[i].ignore_from = "All"
       /\ \E k \in 1..Len(files) :
            /\ GlobMatch(Rules[i].paths[1], files[k].name)
            /\ Unmatched(files[k].name)
            /\ is_binary(files[k].name)
            /\ files[k].ignore_from = Some("Template")
            /\ files[k].name \in DOMAIN target

\* the keys new_context inserts
BuiltinKeys == DOMAIN WithCrateType(IdentityContext, "bin")

CompileFails ==
  /\ pc = "render"
  /\ \E i \in 1..Len(files) :
       /\ files[i].ignore_from # Some("Template")
       /\ files[i].content.k \in {"bad", "bin"}

\* C14: when a file classified as template fails to compile, render returns
\* an error before any output is written: no file and no directory, not
\* even the target root, exists in the target.
C14_CompileFailureWritesNothing ==
  [][CompileFails
       => /\ pc' = "failed"
          /\ error' = Some(Error("failed loading templates", "", ""))
          /\ target' = Empty
          /\ dirs' = {}]_vars

C14_Witness ==
  /\ pc = "failed"
  /\ error = Some(Error("failed loading templates", "", ""))
  /\ \E i \in 1..Len(files) :
       /\ files[i].ignore_from = None
       /\ files[i].content = BadSyntax
  /\ \E i \in 1..Len(files) :
       /\ files[i].ignore_from = None
       /\ Compiles(files[i].content)
  /\ target = Empty
  /\ dirs = {}

\* C15: when the operator cancels during a prompt, the run aborts: the
\* cancelled prompt is the last prompt of the run (no setting declared later
\* is prompted), generate_project has returned a cancellation error, which
\* no other failure returns, and neither filter_ignored, render, the
\* dependency update nor git init has run: the file list is the collected
\* one, no template is compiled and the target is empty.
C15_CancelAborts ==
  /\ \A k \in 1..Len(prompted) :
       prompted[k].cancelled
         => /\ k = Len(prompted)
            /\ prompted[k].presented
            /\ pc = "failed"
            /\ error = Some(Error("cancelled", "", "operation was canceled by the user"))
            /\ files = Collected
            /\ tera = {}
            /\ target = Empty
            /\ dirs = {}
  /\ (IsSome(error) /\ Unwrap(error).kind = "cancelled")
       => /\ prompted # <<>>
          /\ prompted[Len(prompted)].cancelled

C15_Witness ==
  /\ pc = "failed"
  /\ Len(Declared) = 2
  /\ Declared[1].condition = None
  /\ Declared[2].condition = None
  /\ Declared[1].name \notin DOMAIN defaults
  /\ Declared[2].name \notin DOMAIN defaults
  /\ idx = 1
  /\ prompted # <<>>
  /\ prompted[Len(prompted)].name = Declared[1].name
  /\ prompted[Len(prompted)].cancelled
  /\ \A k \in 1..Len(prompted) : prompted[k].name # Declared[2].name

\* fill_context returned an error at the setting at position idx
AbortedInFill ==
  /\ pc = "failed"
  /\ IsSome(repo_settings)
  /\ idx \in 1..Len(Declared)

\* the context new_context returned, by the crate type it holds
ContextBefore == WithCrateType(IdentityContext, context["crate_type"].v)

\* C16 as claimed: when fill_context is aborted at setting k, by cancellation
\* or another error, the caller holds no partial context: the context it
\* holds shows none of the values fill_context inserted for the settings
\* before k.
C16_NoPartialContext ==
  AbortedInFill => context = ContextBefore

\* C16 as amended: fill_context works on the context of the caller and takes
\* nothing back: when it is aborted at setting k, the context the caller
\* holds has the value of every setting resolved before k (every setting
\* before k that was not skipped by its condition) and no key of setting k or
\* a later one; the caller does not go on with it: no file is filtered,
\* compiled or written.
C16_AbortKeepsResolvedValues ==
  AbortedInFill
    => /\ \A i \in 1..(idx - 1) :
            \/ Declared[i].name \in DOMAIN context
            \/ /\ IsSome(Declared[i].condition)
               /\ EvalCondition(Unwrap(Declared[i].condition), context) = Ok(FALSE)
       /\ DOMAIN context \subseteq BuiltinKeys \cup {Declared[i].name : i \in 1..(idx - 1)}
       /\ \A key \in BuiltinKeys \ {Declared[i].name : i \in 1..(idx - 1)} :
            context[key] = ContextBefore[key]
       /\ files = Collected
       /\ tera = {}
       /\ target = Empty
       /\ dirs = {}

C16_Witness ==
  /\ AbortedInFill
  /\ idx = 2
  /\ error = Some(Error("cancelled", "", "operation was canceled by the user"))
  /\ Declared[1].name = "s1"
  /\ Declared[1].ty.type = "Bool"
  /\ "s1" \in DOMAIN context
  /\ context["s1"] = Val("Bool", TRUE)
  /\ "s2" \notin DOMAIN context

\* ------------------------------------------------- properties of the prompts
\* the operator has just entered a line at the prompt
LineEntered == presult = None /\ Len(pinput') = Len(pinput) + 1

\* C17: the Number and the Float prompt accept a typed input if and only if
\* it parses as the numeric type to a value v with min <= v <= max, both
\* bounds included, and then return v; an input below min, above max or
\* that does not parse is rejected and not returned: the prompt goes on.
C17_NumberInputInclusive ==
  [][(psetting.type \in {"Number", "Float"} /\ LineEntered)
       => LET line == pinput'[Len(pinput')]
              v == ParseNumber(psetting.type, line)
              accepted ==
                /\ IsSome(v)
                /\ Unwrap(v) # NaN /\ psetting.min # NaN /\ psetting.max # NaN
                /\ psetting.min <= Unwrap(v)
                /\ Unwrap(v) <= psetting.max
          IN line # ""
               => IF accepted
                    THEN presult' = Some(Ok(Unwrap(v)))
                    ELSE presult' = None]_vars

C17_Witness ==
  /\ psetting.type = "Number"
  /\ psetting.min = 1
  /\ psetting.max = MaxNum
  /\ validate(RepoSetting("s1", None, [psetting EXCEPT !.default = Some(MaxNum)]))
       = Some(DefaultOutOfRange)
  /\ pinput = <<"0", NumText(MaxNum + 1), "x", NumText(MaxNum)>>
  /\ presult = Some(Ok(MaxNum))

\* the entries ticked when the multi selection opens
Seed ==
  IF IsSome(PromptDefault)
    THEN {p \in 1..Len(psetting.values) : psetting.values[p] \in Unwrap(PromptDefault)}
    ELSE {}

\* the entry highlighted after the first k keys: the first ticked entry, or
\* the first entry, moved by the Down and Up keys around the list
HighlightAfter(k) ==
  LET n == Len(psetting.values)
      first == IF Seed = {} THEN 1 ELSE CHOOSE p \in Seed : \A q \in Seed : p <= q
      downs == Cardinality({j \in 1..k : pinput[j] = "Down"})
      ups == Cardinality({j \in 1..k : pinput[j] = "Up"})
  IN ((first - 1 + downs + k * n - ups) % n) + 1

\* entry p is ticked after all keys: it was in the seed and toggled an even
\* number of times, or not in the seed and toggled an odd number of times
TickedAtConfirm(p) ==
  LET toggles == Cardinality({k \in 1..Len(pinput) :
                                pinput[k] = "Toggle" /\ HighlightAfter(k - 1) = p})
  IN (p \in Seed) # (toggles % 2 = 1)

\* C18: for any sequence of Up, Down and toggle keys followed by Enter, the
\* MultiList prompt returns exactly the entries that are ticked at that
\* time (seeded from the default entries, flipped by each toggle of the
\* highlighted entry), in the declared order of values and each once,
\* whatever the order in which they were toggled.
C18_MultiListReturnsTicked ==
  (psetting.type = "MultiList" /\ IsSome(presult) /\ Unwrap(presult).ok)
    => LET values == psetting.values
           chosen == Unwrap(presult).v
       IN /\ \A p \in 1..Len(values) :
               (\E a \in 1..Len(chosen) : chosen[a] = values[p]) <=> TickedAtConfirm(p)
          /\ \A a \in 1..Len(chosen), b \in 1..Len(chosen) :
               a < b => \E p \in 1..Len(values), q \in 1..Len(values) :
                          p < q /\ values[p] = chosen[a] /\ values[q] = chosen[b]
          /\ \A a \in 1..Len(chosen) : \E p \in 1..Len(values) : values[p] = chosen[a]

C18_Witness ==
  /\ psetting.type = "MultiList"
  /\ psetting.values = <<"b", "a", "c">>
  /\ psetting.default = Some({"a"})
  /\ pdefault = None
  /\ pinput = <<"Toggle", "Down", "Toggle", "Up">>
  /\ presult = Some(Ok(<<"c">>))

C20_ContextAppendOnly ==
  [][\A key \in DOMAIN context :
       /\ key \in DOMAIN context'
       /\ context'[key] = context[key]]_vars

\* ---------------------------------------------- properties of new_context
\* C21: the absence of user.name / user.email is fatal to new_context only
\* if no builtin key can be populated; project_name is an argument and can
\* always be populated, so new_context does not fail for the missing
\* identity; and when new_context returns a context it holds project_name,
\* crate_type and exactly one true flag among crate_bin and crate_lib, the
\* one of crate_type.
C21_IdentityAbsenceTolerated ==
  [][pc = "new_context"
       => /\ ~gitConfig => pc' # "failed"
          /\ pc' = "fill_context"
               => /\ {"project_name", "crate_type", "crate_bin", "crate_lib"}
                       \subseteq DOMAIN context'
                  /\ context'["project_name"] = Val("String", ProjectName)
                  /\ context'["crate_type"].v \in {"bin", "lib"}
                  /\ context'["crate_bin"].v = (context'["crate_type"].v = "bin")
                  /\ context'["crate_lib"].v = (context'["crate_type"].v = "lib")]_vars

\* ------------------------------------------------ properties of collect_files
\* a path with a component that filter_entry refuses
Filtered(name) == \E i \in 1..Len(name) : name[i] \in FILTERS

\* the regular files of the source tree under a relative path
EntriesNamed(name) == {j \in 1..Len(tree) : tree[j].name = name}

JustCollected == pc = "load_repo"

GitAt == <<"g", "i", "t", "@">>
HttpScheme == <<"h", "t", "t", "p", ":", "/", "/">>
HttpsScheme == <<"h", "t", "t", "p", "s", ":", "/", "/">>
SshScheme == <<"s", "s", "h", ":", "/", "/">>
DotGit == <<".", "g", "i", "t">>

\* str::starts_with
starts_with(s, prefix) ==
  Len(s) >= Len(prefix) /\ SubSeq(s, 1, Len(prefix)) = prefix

\* str::strip_prefix
strip_prefix(s, prefix) ==
  IF starts_with(s, prefix) THEN Some(SubSeq(s, Len(prefix) + 1, Len(s))) ELSE None

\* str::strip_suffix
strip_suffix(s, suffix) ==
  IF Len(s) >= Len(suffix) /\ SubSeq(s, Len(s) - Len(suffix) + 1, Len(s)) = suffix
    THEN Some(SubSeq(s, 1, Len(s) - Len(suffix)))
  ELSE None

\* str::split_once at the first occurrence of the delimiter
split_once(s, delimiter) ==
  LET at == FirstIndex([i \in 1..Len(s) |-> s[i] = delimiter])
  IN IF at > 0 THEN Some(<<SubSeq(s, 1, at - 1), SubSeq(s, at + 1, Len(s))>>)
     ELSE None

\* name.chars().filter(|&c| c == '/').count()
CountSlashes(name) == Cardinality({i \in 1..Len(name) : name[i] = "/"})

\* what follows the delimiter, without one .git suffix; the ? returns None
\* from find_repo_name when there is no delimiter
NameAfter(s, delimiter) ==
  LET parts == split_once(s, delimiter)
  IN IF IsSome(parts)
       THEN LET name == Unwrap(parts)[2]
                stripped == strip_suffix(name, DotGit)
            IN Some(IF IsSome(stripped) THEN Unwrap(stripped) ELSE name)
     ELSE None

\* find_repo_name without the check of the extracted name
find_repo_name_unchecked(s) ==
  IF starts_with(s, GitAt) THEN NameAfter(s, ":")
  ELSE LET rest == IF IsSome(strip_prefix(s, HttpScheme))
                     THEN strip_prefix(s, HttpScheme)
                   ELSE strip_prefix(s, HttpsScheme)
       IN IF IsSome(rest) THEN NameAfter(Unwrap(rest), "/") ELSE None

\* repo::find_repo_name
find_repo_name(s) ==
  LET name == IF starts_with(s, GitAt) THEN NameAfter(s, ":")
              ELSE LET rest == IF IsSome(strip_prefix(s, HttpScheme))
                                 THEN strip_prefix(s, HttpScheme)
                               ELSE strip_prefix(s, HttpsScheme)
                   IN IF IsSome(rest) THEN NameAfter(Unwrap(rest), "/") ELSE None
  IN IF IsSome(name) /\ CountSlashes(Unwrap(name)) = 1 THEN name ELSE None

\* the pieces URLs are put together from
Pieces ==
  {GitAt, HttpScheme, HttpsScheme, SshScheme, DotGit, <<":">>, <<"/">>, <<"a">>}

RECURSIVE Joined(_)
Joined(n) ==
  IF n = 0 THEN {<<>>}
  ELSE LET shorter == Joined(n - 1)
       IN shorter \cup {s \o piece : s \in shorter, piece \in Pieces}

\* hosts, owners and repositories
Hosts == {<<"h">>, <<"h", ".", "i", "o">>}
Owners == {<<"o">>, <<"r", "u", "s", "t", "-", "l", "a", "n", "g">>}
Repos == {<<"r">>, <<"g", "i", "t", "2", "-", "r", "s">>}

\* the six forms of the URL of one repository
Forms(host, owner, repo) ==
  {prefix \o owner \o <<"/">> \o repo \o suffix :
     prefix \in {GitAt \o host \o <<":">>,
                 HttpScheme \o host \o <<"/">>,
                 HttpsScheme \o host \o <<"/">>},
     suffix \in {<<>>, DotGit}}

Urls ==
  Joined(MaxPieces)
    \cup UNION {Forms(host, owner, repo) :
                  host \in Hosts, owner \in Owners, repo \in Repos}
    \cup {form \o tail : form \in Forms(<<"h">>, <<"o">>, <<"r">>),
                         tail \in {<<"/">>, <<"/", "x">>, DotGit}}
    \cup {SshScheme \o GitAt \o <<"h", "/", "o", "/", "r">>,
          GitAt \o <<"h", "/", "o", "/", "r">>,
          HttpsScheme \o <<"h">>, HttpsScheme \o <<"h", "/", "r">>}

InitRepoName ==
  /\ IdleValidate
  /\ IdlePrompt
  /\ Idle
  /\ url \in Urls
  /\ repo_name = None
  /\ index = {}
  /\ file_content = Empty
  /\ doc = Empty
  /\ table = 0
  /\ updates = <<>>

FindRepoName ==
  /\ repo_name = None
  /\ repo_name' = Some(find_repo_name(url))
  /\ UNCHANGED <<url, cvars, pvars, vvars, qvars>>

NextRepoName == FindRepoName

SpecRepoName == InitRepoName /\ [][NextRepoName]_vars

\* ---------------------------------------------- properties of find_repo_name
Returned == IsSome(repo_name)

RepoNameOf(owner, repo) == owner \o <<"/">> \o repo

\* C23: find_repo_name returns the same owner/repo for the six forms
\* git@host:owner/repo, http://host/owner/repo and https://host/owner/repo,
\* each with and without the suffix .git; it returns None for a URL with
\* another prefix, and it returns no name that does not have exactly one
\* slash.
C23_RepoNameOfSixForms ==
  Returned
    => /\ \A host \in Hosts, owner \in Owners, repo \in Repos :
            url \in Forms(host, owner, repo)
              => Unwrap(repo_name) = Some(RepoNameOf(owner, repo))
       /\ (~starts_with(url, GitAt) /\ ~starts_with(url, HttpScheme)
             /\ ~starts_with(url, HttpsScheme))
            => Unwrap(repo_name) = None
       /\ IsSome(Unwrap(repo_name))
            => CountSlashes(Unwrap(Unwrap(repo_name))) = 1
       /\ \A form \in Forms(<<"h">>, <<"o">>, <<"r">>) :
            url \in {form \o <<"/">>, form \o <<"/", "x">>}
              => Unwrap(repo_name) = None

\* the https form with the suffix gave the name of the repository
C23_Witness ==
  /\ Returned
  /\ url = HttpsScheme \o <<"h", ".", "i", "o", "/">>
             \o RepoNameOf(<<"r", "u", "s", "t", "-", "l", "a", "n", "g">>,
                           <<"g", "i", "t", "2", "-", "r", "s">>) \o DotGit
  /\ Unwrap(repo_name) = Some(RepoNameOf(<<"r", "u", "s", "t", "-", "l", "a", "n", "g">>,
                                         <<"g", "i", "t", "2", "-", "r", "s">>))

\* --------------------------------------------------------------- cargo.rs
\* an Item of a toml_edit document: a formatted value with its raw
\* representation and its decor (the whitespace and comments around it), or
\* a table or inline table with its entries in order
Formatted(kind, value, repr, decor) ==
  [kind |-> kind, value |-> value, repr |-> repr, decor |-> decor, fields |-> <<>>]

TableLike(kind, fields) ==
  [kind |-> kind, value |-> "", repr |-> "", decor |-> "", fields |-> fields]

\* Formatted::new: the default representation and an empty decor
Formatted_new(value) == Formatted("String", value, "basic", "")

\* semver::Version and its Display
Version(major, minor, patch) == <<major, minor, patch>>

VersionText(version) ==
  ToString(version[1]) \o "." \o ToString(version[2]) \o "." \o ToString(version[3])

Update(name, old, new) == [name |-> name, old |-> old, new |-> new]

\* CrateIndex::find_latest_version over an index that lists the latest
\* version by crate name and requirement
find_latest_version(crates, name, req) ==
  IF \E entry \in crates : entry.name = name /\ entry.req = req
    THEN Some((CHOOSE entry \in crates : entry.name = name /\ entry.req = req).latest)
  ELSE None

\* Table::get_mut and InlineTable::get_mut: the position of a key, 0 without
KeyPosition(fields, key) ==
  FirstIndex([i \in 1..Len(fields) |-> fields[i][1] = key])

\* the match of update_versions: the version string of a dependency in one
\* of the three notations
VersionOf(spec) ==
  IF spec.kind = "String" THEN Some(spec)
  ELSE IF spec.kind \in {"InlineTable", "Table"}
    THEN LET at == KeyPosition(spec.fields, "version")
         IN IF at > 0 /\ spec.fields[at][2].kind = "String"
              THEN Some(spec.fields[at][2])
            ELSE None
  ELSE None

\* the assignment through the mutable reference the match returned
WithVersion(spec, version) ==
  IF spec.kind = "String" THEN version
  ELSE [spec EXCEPT !.fields[KeyPosition(spec.fields, "version")][2] = version]

\* the two swaps: the new value keeps the decor of the old one
Swapped(version, latest) == [latest EXCEPT !.decor = version.decor]

\* the body of the loop of update_versions for one dependency, recording
\* an update whenever the index knows a version
UpdateDependency_always_recorded(crates, name, spec) ==
  LET version == VersionOf(spec)
      found == IF IsSome(version)
                 THEN find_latest_version(crates, name, Unwrap(version).value)
               ELSE None
  IN IF IsSome(found)
       THEN LET latest == Formatted_new(VersionText(Unwrap(found)))
            IN [spec |-> WithVersion(spec, Swapped(Unwrap(version), latest)),
                updates |-> <<Update(name, Unwrap(version).value, latest.value)>>]
     ELSE [spec |-> spec, updates |-> <<>>]

\* the body of the loop of update_versions for one dependency
UpdateDependency(crates, name, spec) ==
  LET version == VersionOf(spec)
      found == IF IsSome(version)
                 THEN find_latest_version(crates, name, Unwrap(version).value)
               ELSE None
  IN IF IsSome(found)
       THEN LET latest == Formatted_new(VersionText(Unwrap(found)))
            IN [spec |-> WithVersion(spec, Swapped(Unwrap(version), latest)),
                updates |-> IF Unwrap(version).value # latest.value
                              THEN <<Update(name, Unwrap(version).value, latest.value)>>
                            ELSE <<>>]
     ELSE [spec |-> spec, updates |-> <<>>]

RECURSIVE Concat(_)
Concat(lists) ==
  IF lists = <<>> THEN <<>> ELSE Head(lists) \o Concat(Tail(lists))

\* cargo::update_versions: the document after the call and the updates
update_versions(crates, document, name) ==
  IF name \in DOMAIN document /\ document[name].kind \in {"InlineTable", "Table"}
    THEN LET deps == document[name].fields
             done == [i \in 1..Len(deps) |->
                        UpdateDependency(crates, deps[i][1], deps[i][2])]
         IN [doc |-> [document EXCEPT ![name].fields =
                        [i \in 1..Len(deps) |-> <<deps[i][1], done[i].spec>>]],
             updates |-> Concat([i \in 1..Len(deps) |-> done[i].updates])]
  ELSE [doc |-> document, updates |-> <<>>]

\* the tables update_all_cargo_tomls goes through
DependencyTables == <<"dependencies", "dev-dependencies", "build-dependencies">>

\* the index of the tests, an index with the version the manifest has
\* already and a shorter requirement, and an index without crates
Indexes ==
  {{[name |-> "anyhow", req |-> "1.0.0", latest |-> Version(1, 1, 0)]},
   {[name |-> "anyhow", req |-> "1.0.0", latest |-> Version(1, 0, 0)],
    [name |-> "serde", req |-> "1", latest |-> Version(1, 1, 0)]},
   {}}

Requirement(value, repr, decor) == Formatted("String", value, repr, decor)

GitSource == <<"git", Requirement("https://github.com/dtolnay/anyhow", "basic", "")>>

\* the notations of a dependency: a plain string, an inline table and a
\* full table, with a version string, with a version that is no string and
\* without a version, and a value that is none of them
DependencySpecs ==
  {Requirement(value, "basic", " # pinned") : value \in {"1.0.0", "1"}}
    \cup {Requirement("1.0.0", "literal", "")}
    \cup {TableLike(kind, fields) :
            kind \in {"InlineTable", "Table"},
            fields \in {<<<<"version", Requirement("1.0.0", "basic", " ")>>, GitSource>>,
                        <<GitSource, <<"version", Requirement("1", "literal", "")>>>>,
                        <<<<"version", Formatted("Integer", "1", "1", "")>>>>,
                        <<<<"version", TableLike("InlineTable",
                                                 <<<<"workspace", Formatted("Boolean", "true", "true", "")>>>>)>>>>,
                        <<GitSource>>}}
    \cup {Formatted("Integer", "1", "1", "")}

CrateNames == <<"anyhow", "serde", "tokio">>

\* the dependency lists of up to n crates, in the order of CrateNames
RECURSIVE DependencyLists(_)
DependencyLists(n) ==
  IF n = 0 THEN {<<>>}
  ELSE LET shorter == DependencyLists(n - 1)
       IN shorter
            \cup {Append(deps, <<CrateNames[n], spec>>) :
                    deps \in {d \in shorter : Len(d) = n - 1}, spec \in DependencySpecs}
            \cup IF n = 1 THEN {<<<<"serde", spec>>>> : spec \in DependencySpecs} ELSE {}

Package ==
  TableLike("Table", <<<<"name", Requirement("anyhow", "basic", "")>>,
                       <<"version", Requirement("1.0.0", "basic", "")>>>>)

\* the manifests of the model: the package table, the dependencies as a
\* table, as an inline table or as a value, and development dependencies or
\* none
Manifest(kind, deps) ==
  ("package" :> Package) @@ ("dependencies" :> TableLike(kind, deps))

OtherTables ==
  {name :> TableLike("Table", <<<<"anyhow", Requirement("1.0.0", "basic", "")>>>>) :
     name \in {"dev-dependencies", "target"}}

Documents ==
  {Manifest(kind, deps) :
     kind \in {"Table", "InlineTable"}, deps \in DependencyLists(MaxDeps)}
    \cup {Manifest(kind, deps) @@ other :
            kind \in {"Table", "InlineTable"}, deps \in DependencyLists(MaxDeps),
            other \in OtherTables}
    \cup {("package" :> Package) @@ ("dependencies" :> Requirement("1.0.0", "basic", ""))}

InitCargo ==
  /\ IdleValidate
  /\ IdlePrompt
  /\ Idle
  /\ url = <<>>
  /\ repo_name = None
  /\ index \in Indexes
  /\ file_content \in Documents
  /\ doc = file_content
  /\ table = 0
  /\ updates = <<>>

\* one turn of the loop over the tables in update_all_cargo_tomls
UpdateVersions ==
  /\ table < Len(DependencyTables)
  /\ LET result == update_versions(index, doc, DependencyTables[table + 1])
     IN /\ doc' = result.doc
        /\ updates' = Append(updates, result.updates)
  /\ table' = table + 1
  /\ UNCHANGED <<index, file_content, rvars, pvars, vvars, qvars>>

NextCargo == UpdateVersions

SpecCargo == InitCargo /\ [][NextCargo]_vars

\* ------------------------------------------- properties of update_versions
\* the tables update_versions was called for
Handled(name) == \E k \in 1..table : DependencyTables[k] = name

IsTableLike(item) == item.kind \in {"InlineTable", "Table"}

\* a version string after the call: the text of the latest version the
\* index has for the crate and the requirement, if it has one
Replaced(name, version) ==
  LET latest == find_latest_version(index, name, version.value)
  IN IF IsSome(latest)
       THEN [version EXCEPT !.value = VersionText(Unwrap(latest)), !.repr = "basic"]
     ELSE version

\* a dependency before and after the call
DependencyAfter(old, new) ==
  /\ new[1] = old[1]
  /\ IF old[2].kind = "String" THEN new[2] = Replaced(old[1], old[2])
     ELSE IF IsTableLike(old[2])
       THEN /\ new[2].kind = old[2].kind
            /\ Len(new[2].fields) = Len(old[2].fields)
            /\ \A j \in 1..Len(old[2].fields) :
                 LET was == old[2].fields[j]
                 IN new[2].fields[j] =
                      IF was[1] = "version" /\ was[2].kind = "String"
                        THEN <<"version", Replaced(old[1], was[2])>>
                      ELSE was
     ELSE new[2] = old[2]

\* the version strings of a dependency: one or none
VersionStrings(spec) ==
  IF spec.kind = "String" THEN {spec}
  ELSE IF IsTableLike(spec)
    THEN {spec.fields[j][2] : j \in {i \in 1..Len(spec.fields) :
                                       /\ spec.fields[i][1] = "version"
                                       /\ spec.fields[i][2].kind = "String"}}
  ELSE {}

\* the dependencies of a table whose version text is another one afterwards
Differing(deps) ==
  SelectSeq(deps, LAMBDA dep :
    \E version \in VersionStrings(dep[2]) :
      Replaced(dep[1], version).value # version.value)

\* the updates a call for a table has to return
RecordedFor(name) ==
  IF name \in DOMAIN file_content /\ IsTableLike(file_content[name])
    THEN LET differing == Differing(file_content[name].fields)
         IN [k \in 1..Len(differing) |->
               LET version == CHOOSE v \in VersionStrings(differing[k][2]) : TRUE
               IN Update(differing[k][1], version.value,
                         Replaced(differing[k][1], version).value)]
  ELSE <<>>

\* C24: update_versions replaces the version requirement of a dependency
\* with the latest version of the index in all three notations (a plain
\* string, the version of an inline table, the version of a full table) and
\* changes nothing else: dependencies without a version in the index or
\* without a version string and all other tables stay as they were; an
\* update is recorded only when the text of the new version differs.
C24_OnlyVersionsReplaced ==
  /\ DOMAIN doc = DOMAIN file_content
  /\ \A name \in DOMAIN doc :
       IF Handled(name) /\ IsTableLike(file_content[name])
         THEN /\ doc[name].kind = file_content[name].kind
              /\ Len(doc[name].fields) = Len(file_content[name].fields)
              /\ \A i \in 1..Len(doc[name].fields) :
                   DependencyAfter(file_content[name].fields[i], doc[name].fields[i])
       ELSE doc[name] = file_content[name]
  /\ Len(updates) = table
  /\ \A k \in 1..table : updates[k] = RecordedFor(DependencyTables[k])

\* the version of an inline table went from 1.0.0 to 1.1.0 next to its git
\* source, and a dependency the index does not know stayed
C24_Witness ==
  /\ table = Len(DependencyTables)
  /\ file_content["dependencies"].fields =
       <<<<"anyhow", TableLike("InlineTable",
                               <<<<"version", Requirement("1.0.0", "basic", " ")>>, GitSource>>)>>,
         <<"serde", Requirement("1.0.0", "literal", "")>>>>
  /\ doc["dependencies"].fields =
       <<<<"anyhow", TableLike("InlineTable",
                               <<<<"version", Requirement("1.1.0", "basic", " ")>>, GitSource>>)>>,
         <<"serde", Requirement("1.0.0", "literal", "")>>>>
  /\ updates[1] = <<Update("anyhow", "1.0.0", "1.1.0")>>

\* ------------------------------------------------ the order of fill_context
SettingNames == {Declared[j].name : j \in 1..Len(Declared)}

PositionOf(name) == CHOOSE j \in 1..Len(Declared) : Declared[j].name = name

\* the calls of prompt functions fill_context made
SettingPrompts == SelectSeq(prompted, LAMBDA call : call.name # CrateTypeQuestion)

\* C25: settings are processed strictly in declaration order, each at most
\* once: the prompts are a subsequence of the declaration order, and when
\* the condition of setting i is evaluated the context holds exactly the
\* builtin keys and the values of the active settings declared before i,
\* never a value of a later setting.
C25_DeclarationOrder ==
  /\ [](/\ \A a \in 1..Len(SettingPrompts) :
             /\ SettingPrompts[a].name \in SettingNames
             /\ \A b \in (a + 1)..Len(SettingPrompts) :
                  PositionOf(SettingPrompts[a].name) < PositionOf(SettingPrompts[b].name)
        /\ pc = "fill_context"
             => /\ BuiltinKeys \subseteq DOMAIN context
                /\ DOMAIN context \subseteq
                     BuiltinKeys \cup {Declared[j].name : j \in 1..(idx - 1)}
                /\ \A a \in 1..Len(SettingPrompts) :
                     PositionOf(SettingPrompts[a].name) < idx)
  /\ [][pc = "fill_context"
          => /\ idx' \in {idx, idx + 1}
             /\ (idx' = idx /\ pc' = "fill_context") => UNCHANGED <<context, prompted>>
             /\ idx' = idx + 1
                  => /\ DOMAIN context' \in {DOMAIN context,
                                             DOMAIN context \cup {Declared[idx].name}}
                     /\ \A name \in DOMAIN context \ {Declared[idx].name} :
                          context'[name] = context[name]
                     /\ Len(prompted') \in {Len(prompted), Len(prompted) + 1}
                     /\ Len(prompted') = Len(prompted) + 1
                          => prompted'[Len(prompted')].name = Declared[idx].name
                     /\ (IsSome(Declared[idx].condition)
                           /\ EvalCondition(Unwrap(Declared[idx].condition), context)
                                = Ok(FALSE))
                          => UNCHANGED <<context, prompted>>]_vars

\* both settings were prompted for, the second after its condition was
\* evaluated on the value of the first
C25_Witness ==
  /\ pc = "fill_context"
  /\ idx = 3
  /\ IsSome(Declared[2].condition)
  /\ Len(SettingPrompts) = 2
  /\ {Declared[1].name, Declared[2].name} \subseteq DOMAIN context \ BuiltinKeys

\* ------------------------------------------- the steps of generate_project
\* the statements of generate_project in the order of the source
Steps ==
  <<"collect_files", "load_repo", "new_context", "fill_context", "filter_ignored",
    "render", "render_files", "update_deps", "init", "done">>

StepOf(step) == CHOOSE n \in 1..Len(Steps) : Steps[n] = step

NothingWritten == target = Empty /\ dirs = {}

\* C26: the steps happen in the fixed order collect files, load settings,
\* build context, fill context, filter, render, optional dependency update,
\* git init, each only after the previous one succeeded; no file is written
\* to the target before every prompt is answered and the classification of
\* the files is fixed; the dependencies are updated only when requested;
\* git init happens only after render succeeded.
C26_StepsInOrder ==
  /\ [](/\ pc = "failed" <=> IsSome(error)
        /\ (pc # "failed" /\ StepOf(pc) <= StepOf("render")) => NothingWritten
        /\ pc = "update_deps" => update_deps
        /\ pc \in {"update_deps", "init", "done"} => cursor > Len(files))
  /\ [][/\ pc = "failed" => pc' = "failed"
        /\ (pc' # pc /\ pc' # "failed")
             => \/ StepOf(pc') = StepOf(pc) + 1
                \/ pc = "render_files" /\ pc' = "init" /\ ~update_deps
        /\ (target' # target \/ dirs' # dirs)
             => /\ StepOf(pc) \in {StepOf("render"), StepOf("render_files")}
                /\ UNCHANGED <<prompted, context, files>>]_vars

\* a run with the update of the dependencies requested came to its end with
\* files in the target
C26_Witness ==
  /\ pc = "done"
  /\ update_deps
  /\ target # Empty

\* ------------------------------------------------- a failure inside render
\* render wrote the output of this file, or will
Written(file) == file.ignore_from \in {None, Some("Template")}

RenderFailed == pc = "failed" /\ cursor >= 1 /\ cursor <= Len(files)

\* C27: when rendering or copying the k-th file fails, render returns the
\* error at once and does not try again: the outputs of the files before k
\* remain in the target (nothing is rolled back) and no file after k is
\* written.
C27_FailureKeepsEarlierOutputs ==
  /\ [][(pc = "render_files" /\ pc' = "failed")
          => /\ cursor' = cursor
             /\ \A name \in DOMAIN target :
                  name \in DOMAIN target' /\ target'[name] = target[name]
             /\ DOMAIN target' \subseteq DOMAIN target \cup {files[cursor].name}]_vars
  /\ [][pc = "failed" => UNCHANGED <<pc, cursor, target, dirs>>]_vars
  /\ [](RenderFailed
          => /\ \A i \in 1..(cursor - 1) :
                  Written(files[i]) => files[i].name \in DOMAIN target
             /\ \A i \in (cursor + 1)..Len(files) :
                  files[i].name \notin DOMAIN target)

\* the second of three files failed to render: the first is in the target,
\* the third is not
C27_Witness ==
  /\ RenderFailed
  /\ cursor = 2 /\ Len(files) = 3
  /\ Unwrap(error).kind = "tera"
  /\ files[1].name \in DOMAIN target
  /\ files[3].name \notin DOMAIN target

\* ----------------------------------------------- conditions that are no bool
\* an ignore rule whose condition does not evaluate to a boolean
BadRule(rule) ==
  IsSome(rule.condition) /\ ~EvalCondition(Unwrap(rule.condition), context).ok

\* C28: when the condition of a setting or of an ignore rule does not
\* evaluate to a boolean the run fails: the setting is neither prompted for
\* nor inserted, no file is filtered or rendered, and the error names the
\* offending setting or rule.
C28_ConditionErrorNamesCulprit ==
  [][/\ (InFillContext /\ ~Activation.ok)
          => /\ pc' = "failed"
             /\ UNCHANGED <<context, prompted, files, target>>
             /\ Unwrap(error').name = Current.name
     /\ (pc = "filter_ignored" /\ \E i \in 1..Len(Rules) : BadRule(Rules[i]))
          => /\ pc' = "failed"
             /\ UNCHANGED <<files, target>>
             /\ Unwrap(error').name # ""]_vars

\* ------------------------------------------ the constraints of a setting
\* the elements of the JSON array a MultiList value is stored as
Elements(value) ==
  IF value.t = "Array" THEN {value.v[i] : i \in 1..Len(value.v)} ELSE value.v

\* a value of the context within the constraints of the setting type
Respects(ty, value) ==
  CASE ty.type \in {"Number", "Float"} ->
         value.t = ty.type => RangeInclusiveContains(ty.min, ty.max, value.v)
    [] ty.type = "List" -> value.t = "String" => Contains(ty.values, value.v)
    [] ty.type = "MultiList" ->
         value.t \in {"Array", "Set"}
           => \A element \in Elements(value) : Contains(ty.values, element)
    [] OTHER -> TRUE

\* C29: every value fill_context inserts respects the declared constraints,
\* whichever way it was obtained (typed, declared default, seeded external
\* default, external default with skip_prompt): a Number or Float is within
\* min and max, a List value is one of values, every element of a MultiList
\* value is one of values.
C29_InsertedValuesRespectConstraints ==
  pc \in {"fill_context", "filter_ignored", "render", "render_files", "update_deps",
          "init", "done"}
    => \A j \in 1..Len(Declared) :
         (j < idx /\ Declared[j].name \in DOMAIN context \ BuiltinKeys)
           => Respects(Declared[j].ty, context[Declared[j].name])

\* -------------------------------------------------- the cursor of a list
InList == psetting.type \in {"List", "MultiList"}

\* the prompt function returned this result
ReturnedOk == IsSome(presult) /\ Unwrap(presult).ok

\* C30: for every List and MultiList setting validate accepts, with an empty
\* list of values and with an external default that is not among the values
\* too, the cursor starts at the position of the default or at the first
\* entry, stays on an entry of values under Up and Down, and confirming a
\* List returns the entry under the cursor, one of values; no position
\* outside of values is ever used and the prompt ends in no other error
\* than the cancellation.
C30_CursorAlwaysOnAnEntry ==
  InList
    => /\ pindex \in 1..Len(psetting.values)
       /\ (psetting.type = "List" /\ pinput = <<>>)
            => \/ Some(psetting.values[pindex]) = PromptDefault
               \/ pindex = 1 /\ ~\E i \in 1..Len(psetting.values) :
                                    Some(psetting.values[i]) = PromptDefault
       /\ (psetting.type = "List" /\ ReturnedOk)
            => /\ Unwrap(presult).v = psetting.values[pindex]
               /\ Contains(psetting.values, Unwrap(presult).v)
       /\ (IsSome(presult) /\ ~Unwrap(presult).ok) => Unwrap(presult) = Cancelled

====
